---- MODULE Spec2Model ----
(***************************************************************************)
(* A model of the font cache and text drawing of src/vtedraw.cc: the       *)
(* process-wide table of font_info structs keyed by PangoContext, their    *)
(* reference counts and delayed destruction, the four font slots of a     *)
(* struct _vte_draw, and the per-character unistr_info cache.              *)
(*                                                                         *)
(* Everything runs on the one GDK main loop: a handler runs to completion  *)
(* before the next one starts.  pc is the position of the running handler  *)
(* and cur holds its arguments and locals; every other handler is guarded  *)
(* by pc = "idle".                                                         *)
(***************************************************************************)
EXTENDS Integers, Sequences, FiniteSets, TLC

VARIABLES
    font_info_for_context, \* the global hash table: the registered font_info ids
    infos,                 \* the heap of font_info structs: id -> struct
    next_info,             \* the next font_info to be allocated
    sources,               \* the main loop's armed timeout sources: id -> font_info
    draws,                 \* the struct _vte_draw of every terminal
    pc,                    \* position of the running handler
    cur,                   \* arguments and locals of the running handler
    ret,                   \* what font_info_find_for_context returned to the running handler
    freed,                 \* the contexts of the font_info structs freed so far
    out                    \* what the last handler returned, shaped and drew

vars == <<font_info_for_context, infos, next_info, sources, draws, pc, cur, ret, freed, out>>

NULL == 0

\* ------------------------------------------------------------------ bounds

\* font_info structs allocated in one run
MaxInfos == 5
\* a handler starts only while every ref_count is below this
MaxRef == 3
\* the widest font whose width is compared
MaxWidth == 40

\* ------------------------------------------------------- program constants

VTE_DRAW_NORMAL == 0
VTE_DRAW_BOLD == 1
VTE_DRAW_ITALIC == 2
FONT_CACHE_TIMEOUT == 30
MAX_RUN_LENGTH == 100
PANGO_SCALE == 1024

\* enum unistr_coverage
COVERAGE_UNKNOWN == 0
COVERAGE_USE_PANGO_LAYOUT_LINE == 1
COVERAGE_USE_PANGO_GLYPH_STRING == 2
COVERAGE_USE_CAIRO_GLYPH == 3

\* G_N_ELEMENTS (info->ascii_unistr_info)
AsciiSize == 128

Styles == 0 .. 3

\* ------------------------------------------------------------ environment

\* PangoFontDescription: the fields _vte_draw_set_text_font changes, and the family.
FontDesc(weight, style) == [family |-> "mono", weight |-> weight, style |-> style]

\* A GtkWidget as font_info_create_for_widget reads it: its screen's pango
\* context (font map, resolution, font options; "none" when the context has
\* no font options set), the screen's gtk-fontconfig-timestamp, and the
\* language of the widget's pango context.
Widget(fm, res, opts, lang, ts) ==
    [font_map |-> fm, resolution |-> res, font_options |-> opts,
     language |-> lang, fontconfig_timestamp |-> ts]

\* The code points of the model: space, ( ) A, U+03BB, U+2500, U+250C, U+2510.
AsciiPoints == {32, 40, 41, 65}
OtherPoints == {955, 9472, 9484, 9488}

\* What the shaper returns: a PangoLayout after pango_layout_set_text.  A run
\* (PangoGlyphItem) has its font, the cairo scaled font of that font, its
\* glyphs, and its clusters as pango_glyph_item_iter walks them.  Widths,
\* offsets and the baseline are in pango units.
Glyph(g, xo, yo, w) == [glyph |-> g, x_offset |-> xo, y_offset |-> yo, width |-> w]

Cluster(si, ei, sc, ec, sg, eg) ==
    [start_index |-> si, end_index |-> ei, start_char |-> sc, end_char |-> ec,
     start_glyph |-> sg, end_glyph |-> eg]

Run(font, scaled_font, glyphs, clusters) ==
    [font |-> font, scaled_font |-> scaled_font, glyphs |-> glyphs, clusters |-> clusters]

\* PANGO_GET_UNKNOWN_GLYPH (wc): the glyph of a character no font covers
UnknownGlyph(wc) == 268435456 + wc

RECURSIVE UnknownGlyphs(_)
UnknownGlyphs(runs) ==
    IF runs = << >> THEN 0
    ELSE Cardinality({ k \in DOMAIN Head(runs).glyphs :
                         Head(runs).glyphs[k].glyph >= UnknownGlyph(0) })
         + UnknownGlyphs(Tail(runs))

\* unknown_glyphs is what pango_layout_get_unknown_glyphs_count returns
Layout(text, w, h, baseline, runs) ==
    [text |-> text, unknown_glyphs |-> UnknownGlyphs(runs), width |-> w, height |-> h,
     baseline |-> baseline, runs |-> runs]

\* a layout whose text is "" (pango_layout_new, pango_layout_set_text (layout, "", -1))
EmptyLayout == Layout(<< >>, 0, 0, 0, << >>)

\* VTE_DRAW_SINGLE_WIDE_CHARACTERS, cut down to " ( A": every character is
\* preceded by a space
ProbeText == <<32, 40, 32, 65>>

SimpleClusters ==
    <<Cluster(0, 1, 0, 1, 0, 1), Cluster(1, 2, 1, 2, 1, 2),
      Cluster(2, 3, 2, 3, 2, 3), Cluster(3, 4, 3, 4, 3, 4)>>

Px(n) == n * PANGO_SCALE

SimpleGlyphs ==
    <<Glyph(3, 0, 0, Px(20)), Glyph(11, 0, 0, Px(20)),
      Glyph(3, 0, 0, Px(20)), Glyph(36, 0, 0, Px(20))>>

Probe(runs) == Layout(ProbeText, Px(80), Px(40), Px(30), runs)

\* every cluster one character, one glyph at the origin
ProbeSimple == Probe(<<Run(1, 1, SimpleGlyphs, SimpleClusters)>>)

\* "(" is drawn off the origin, the second space has another glyph than the
\* first, and the glyph of "A" does not fit 16 bits
ProbeOdd ==
    Probe(<<Run(1, 1,
                   <<Glyph(3, 0, 0, Px(20)), Glyph(11, 64, 0, Px(20)),
                     Glyph(4, 0, 0, Px(10)), Glyph(65536, 0, 0, Px(20))>>,
                   SimpleClusters)>>)

\* " (" is one ligature glyph, and "A" takes two glyphs
ProbeLigature ==
    Probe(<<Run(1, 1,
                   <<Glyph(90, 0, 0, Px(40)), Glyph(3, 0, 0, Px(20)),
                     Glyph(36, 0, 0, Px(20)), Glyph(37, 0, 0, 0)>>,
                   <<Cluster(0, 2, 0, 2, 0, 1), Cluster(2, 3, 2, 3, 1, 2),
                     Cluster(3, 4, 3, 4, 2, 4)>>)>>)

\* no font has a glyph for "("
ProbeUnknown ==
    Probe(<<Run(1, 1,
                <<Glyph(3, 0, 0, Px(20)), Glyph(UnknownGlyph(40), 0, 0, Px(20)),
                  Glyph(3, 0, 0, Px(20)), Glyph(36, 0, 0, Px(20))>>,
                SimpleClusters)>>)

ProbeTwoRuns ==
    Probe(<<Run(1, 1, SubSeq(SimpleGlyphs, 1, 2), SubSeq(SimpleClusters, 1, 2)),
               Run(2, 2, SubSeq(SimpleGlyphs, 3, 4), SubSeq(SimpleClusters, 1, 2))>>)

\* a face whose baseline lies lower
ProbeDeep == Layout(ProbeText, Px(80), Px(40), Px(33), <<Run(1, 1, SimpleGlyphs, SimpleClusters)>>)

ProbeNoRuns == Probe(<< >>)
ProbeNoFont == Probe(<<Run(NULL, NULL, SimpleGlyphs, SimpleClusters)>>)
ProbeNoScaledFont == Probe(<<Run(1, NULL, SimpleGlyphs, SimpleClusters)>>)

ProbeShapes ==
    { ProbeSimple, ProbeOdd, ProbeLigature, ProbeUnknown, ProbeTwoRuns,
      ProbeNoRuns, ProbeNoFont, ProbeNoScaledFont }

\* The logical extents of the printable ASCII characters, measured one by
\* one: regular faces are 20 wide, bold faces 21 or 23.
Extent(w, h) == [width |-> w, height |-> h]

CharExtents(desc) ==
    IF desc.weight = "bold"
    THEN { {Extent(Px(20), Px(40)), Extent(Px(20) + 1, Px(40))},
           {Extent(Px(23), Px(40) + 1)} }
    ELSE { {Extent(Px(20), Px(40))} }

AllCharExtents == UNION { CharExtents(FontDesc(w, "normal")) : w \in {"normal", "bold"} }

\* pango_language_includes_script (language, PANGO_SCRIPT_LATIN)
IncludesLatin(language) == language \in {"en"}

\* g_unichar_get_script (c) <= G_UNICODE_SCRIPT_INHERITED: common or
\* inherited, which space and punctuation are and letters are not
ScriptIsCommon(c) == c \in {32, 40, 41, 9472, 9484, 9488}

\* cell_width_scale and cell_height_scale, as fractions
Scale(n, d) == [num |-> n, den |-> d]

Draws == {1, 2}

\* ------------------------------------------------------------------ helpers

Max(a, b) == IF a >= b THEN a ELSE b

\* the loop of std::max over the numbers of S, from acc
RECURSIVE MaxOver(_, _)
MaxOver(S, acc) ==
    IF S = {} THEN acc
    ELSE LET x == CHOOSE y \in S : TRUE
         IN  MaxOver(S \ {x}, Max(acc, x))

\* PANGO_PIXELS_CEIL(d): (d + 1023) >> 10
PANGO_PIXELS_CEIL(d) == (d + 1023) \div 1024

abs(x) == IF x < 0 THEN -x ELSE x

\* -------------------------------------------------------------- font_info

\* struct unistr_info after g_slice_new0
EmptyUnistrInfo ==
    [coverage |-> COVERAGE_UNKNOWN, has_unknown_chars |-> FALSE, width |-> 0,
     ufi |-> [unset |-> TRUE]]

\* the guint16 of unistr_info.width
Guint16(n) == n % 65536

\* font_info_find_unistr_info: the entry of c, a new one when c has none
font_info_find_unistr_info(info, c) ==
    IF c < AsciiSize
    THEN info.ascii_unistr_info[c]
    ELSE IF c \in DOMAIN info.other_unistr_info
    THEN info.other_unistr_info[c]
    ELSE EmptyUnistrInfo

\* the font_info with the entry of c, found by font_info_find_unistr_info, set
SetUnistrInfo(info, c, uinfo) ==
    IF c < AsciiSize
    THEN [info EXCEPT !.ascii_unistr_info[c] = uinfo]
    ELSE [info EXCEPT !.other_unistr_info =
              [p \in (DOMAIN @) \cup {c} |-> IF p = c THEN uinfo ELSE @[p]]]

\* a caching that does not skip a character it has cached
CacheClusterAgain(info, glyph_item, cluster) ==
    LET c == info.layout.text[cluster.start_index + 1]
        glyph == glyph_item.glyphs[cluster.start_glyph + 1]
    IN  IF \/ cluster.start_char + 1 # cluster.end_char
           \/ cluster.start_index + 1 # cluster.end_index
           \/ cluster.start_glyph + 1 # cluster.end_glyph
           \/ (~IncludesLatin(info.context.language) /\ ScriptIsCommon(c))
           \/ ~(glyph.glyph <= 65535) \/ glyph.x_offset # 0 \/ glyph.y_offset # 0
        THEN info
        ELSE SetUnistrInfo(info, c,
                 [coverage |-> COVERAGE_USE_CAIRO_GLYPH,
                  has_unknown_chars |-> FALSE,
                  width |-> Guint16(PANGO_PIXELS_CEIL(glyph.width)),
                  ufi |-> [scaled_font |-> glyph_item.scaled_font,
                           glyph_index |-> glyph.glyph]])

\* what font_info_cache_ascii does with one cluster of the run
CacheCluster(info, glyph_item, cluster) ==
    LET text == info.layout.text
        c == text[cluster.start_index + 1]
        glyph == glyph_item.glyphs[cluster.start_glyph + 1]
        uinfo == font_info_find_unistr_info(info, c)
    IN  IF \/ cluster.start_char + 1 # cluster.end_char
           \/ cluster.start_index + 1 # cluster.end_index
           \/ cluster.start_glyph + 1 # cluster.end_glyph
        THEN info
        ELSE IF ~IncludesLatin(info.context.language) /\ ScriptIsCommon(c)
        THEN info
        ELSE IF ~(glyph.glyph <= 65535) \/ glyph.x_offset # 0 \/ glyph.y_offset # 0
        THEN info
        ELSE IF uinfo.coverage # COVERAGE_UNKNOWN
        THEN info
        ELSE SetUnistrInfo(info, c,
                 [coverage |-> COVERAGE_USE_CAIRO_GLYPH,
                  has_unknown_chars |-> FALSE,
                  width |-> Guint16(PANGO_PIXELS_CEIL(glyph.width)),
                  ufi |-> [scaled_font |-> glyph_item.scaled_font,
                           glyph_index |-> glyph.glyph]])

RECURSIVE CacheClusters(_, _, _)
CacheClusters(info, glyph_item, k) ==
    IF k > Len(glyph_item.clusters)
    THEN info
    ELSE CacheClusters(CacheCluster(info, glyph_item, glyph_item.clusters[k]),
                       glyph_item, k + 1)

\* a font_info_cache_ascii that does not ask for the unknown glyphs
font_info_cache_ascii_with_unknown(info) ==
    LET runs == info.layout.runs
    IN  IF Len(runs) # 1
        THEN info
        ELSE IF runs[1].font = NULL
        THEN info
        ELSE IF runs[1].scaled_font = NULL
        THEN info
        ELSE CacheClusters(info, runs[1], 1)

\* font_info_cache_ascii: info->layout holds the shaped sample text
font_info_cache_ascii(info) ==
    LET runs == info.layout.runs
    IN  IF info.layout.unknown_glyphs # 0
        THEN info
        ELSE IF Len(runs) # 1
        THEN info
        ELSE IF runs[1].font = NULL
        THEN info
        ELSE IF runs[1].scaled_font = NULL
        THEN info
        ELSE CacheClusters(info, runs[1], 1)

\* a font_info_measure_font whose max_width and max_height start at 0
font_info_measure_font_from_zero(info, chars, probe) ==
    LET max_width == MaxOver({ PANGO_PIXELS_CEIL(e.width) : e \in chars }, 0)
        max_height == MaxOver({ PANGO_PIXELS_CEIL(e.height) : e \in chars }, 0)
        measured == [info EXCEPT !.layout = probe,
                                 !.ascent = PANGO_PIXELS_CEIL(probe.baseline),
                                 !.height = max_height,
                                 !.width = max_width]
        cached == font_info_cache_ascii(measured)
    IN  [cached EXCEPT
            !.height = IF @ = 0 THEN PANGO_PIXELS_CEIL(probe.height) ELSE @,
            !.ascent = IF @ = 0 THEN PANGO_PIXELS_CEIL(probe.baseline) ELSE @]

\* font_info_measure_font: chars are the extents of the characters measured
\* one by one, probe is the layout of the sample text
font_info_measure_font(info, chars, probe) ==
    LET max_width == MaxOver({ PANGO_PIXELS_CEIL(e.width) : e \in chars }, 1)
        max_height == MaxOver({ PANGO_PIXELS_CEIL(e.height) : e \in chars }, 1)
        measured == [info EXCEPT !.layout = probe,
                                 !.ascent = PANGO_PIXELS_CEIL(probe.baseline),
                                 !.height = max_height,
                                 !.width = max_width]
        cached == font_info_cache_ascii(measured)
    IN  [cached EXCEPT
            !.height = IF @ = 0 THEN PANGO_PIXELS_CEIL(probe.height) ELSE @,
            !.ascent = IF @ = 0 THEN PANGO_PIXELS_CEIL(probe.baseline) ELSE @]

\* font_info_allocate: g_slice_new0, a new layout, then the measuring
font_info_allocate(context, chars, probe) ==
    font_info_measure_font(
        [context |-> context, ref_count |-> 0, destroy_timeout |-> 0,
         layout |-> EmptyLayout,
         ascii_unistr_info |-> [c \in AsciiPoints |-> EmptyUnistrInfo],
         other_unistr_info |-> << >>,
         width |-> 0, height |-> 0, ascent |-> 0],
        chars, probe)

\* an equality of the PangoContext pointers: each lookup has a context of its own
context_identical(a, b) == FALSE

\* a ^ b of two guint
RECURSIVE BitXor(_, _)
BitXor(a, b) ==
    IF a = 0 THEN b
    ELSE IF b = 0 THEN a
    ELSE ((a + b) % 2) + 2 * BitXor(a \div 2, b \div 2)

\* pango_units_from_double (d): floor (d * PANGO_SCALE + 0.5), of a whole d
pango_units_from_double(d) == (2 * d * PANGO_SCALE + 1) \div 2

\* pango_font_description_hash: a number of the family, the style and the weight
pango_font_description_hash(desc) ==
    BitXor(BitXor(IF desc.family = "mono" THEN 28271 ELSE 29537,
                  IF desc.style = "italic" THEN 2 * 65536 ELSE 0),
           IF desc.weight = "bold" THEN 700 * 65536 ELSE 400 * 65536)

\* cairo_font_options_hash: a number of the options
cairo_font_options_hash(options) ==
    CASE options = "default" -> 0
      [] options = "gray" -> 256
      [] OTHER -> 512

\* GPOINTER_TO_UINT (pango_context_get_language (context)): a PangoLanguage is
\* interned, one pointer for each language tag
LanguagePointer(language) ==
    CASE language = "en" -> 24576
      [] language = "ja" -> 24640
      [] OTHER -> 24704

context_hash(context) ==
    BitXor(BitXor(BitXor(BitXor(pango_units_from_double(context.resolution),
                                pango_font_description_hash(context.desc)),
                         cairo_font_options_hash(context.font_options)),
                  LanguagePointer(context.language)),
           context.fontconfig_timestamp)

\* a context_equal that does not compare the resolutions
context_equal_but_resolution(a, b) ==
    /\ a.desc = b.desc
    /\ a.font_options = b.font_options
    /\ a.language = b.language
    /\ a.fontconfig_timestamp = b.fontconfig_timestamp

\* a context_equal that does not compare the languages
context_equal_but_language(a, b) ==
    /\ a.resolution = b.resolution
    /\ a.desc = b.desc
    /\ a.font_options = b.font_options
    /\ a.fontconfig_timestamp = b.fontconfig_timestamp

context_equal(a, b) ==
    /\ a.resolution = b.resolution
    /\ a.desc = b.desc
    /\ a.font_options = b.font_options
    /\ a.language = b.language
    /\ a.fontconfig_timestamp = b.fontconfig_timestamp

\* a lookup that finds no font_info whose references are all released
g_hash_table_lookup_referenced(context) ==
    IF \E i \in font_info_for_context :
          context_equal(infos[i].context, context) /\ infos[i].ref_count > 0
    THEN CHOOSE i \in font_info_for_context :
          context_equal(infos[i].context, context) /\ infos[i].ref_count > 0
    ELSE NULL

\* g_hash_table_lookup (font_info_for_context, context)
g_hash_table_lookup(context) ==
    IF \E i \in font_info_for_context : context_equal(infos[i].context, context)
    THEN CHOOSE i \in font_info_for_context : context_equal(infos[i].context, context)
    ELSE NULL

\* g_hash_table_insert: an entry with an equal key is replaced
font_info_register(table, heap, info) ==
    (table \ {j \in table : context_equal(heap[j].context, heap[info].context)}) \cup {info}

\* a g_hash_table_remove that leaves the entry
g_hash_table_keep(table, info) == table

\* g_hash_table_remove: the entry with an equal key goes
font_info_unregister(table, info) ==
    table \ {j \in table : context_equal(infos[j].context, infos[info].context)}

\* gdk_threads_add_timeout_seconds: the id of the new source, never 0
NewSource == CHOOSE s \in 1 .. (Cardinality(DOMAIN sources) + 1) : s \notin DOMAIN sources

Without(f, x) == [y \in (DOMAIN f) \ {x} |-> f[y]]
With(f, x, v) == [y \in (DOMAIN f) \cup {x} |-> IF y = x THEN v ELSE f[y]]

\* a font_info_reference without the g_source_remove
font_info_reference_keeping_timeout(info) ==
    /\ infos' = [infos EXCEPT ![info].ref_count = @ + 1]
    /\ UNCHANGED sources

\* a font_info_reference that forgets the timeout and leaves its source armed
font_info_reference_leaving_source(info) ==
    /\ infos' = [infos EXCEPT ![info].destroy_timeout = 0,
                              ![info].ref_count = @ + 1]
    /\ UNCHANGED sources

\* font_info_reference, on the heap and the sources
font_info_reference(info) ==
    IF info = NULL
    THEN UNCHANGED <<infos, sources>>
    ELSE IF info \notin DOMAIN infos
    THEN UNCHANGED <<infos, sources>>
    ELSE IF ~(infos[info].ref_count >= 0)
    THEN UNCHANGED <<infos, sources>>
    ELSE /\ sources' = IF infos[info].destroy_timeout # 0
                       THEN Without(sources, infos[info].destroy_timeout)
                       ELSE sources
         /\ infos' = [infos EXCEPT ![info].destroy_timeout = 0,
                                   ![info].ref_count = @ + 1]

\* a font_info_destroy that frees at the last reference
font_info_destroy_at_once(info) ==
    IF infos[info].ref_count - 1 # 0
    THEN /\ infos' = [infos EXCEPT ![info].ref_count = @ - 1]
         /\ UNCHANGED sources
    ELSE /\ infos' = Without(infos, info)
         /\ UNCHANGED sources

\* a font_info_destroy without its g_return_if_fail
font_info_destroy_unchecked(info) ==
    IF infos[info].ref_count - 1 # 0
    THEN /\ infos' = [infos EXCEPT ![info].ref_count = @ - 1]
         /\ UNCHANGED sources
    ELSE /\ infos' = [infos EXCEPT ![info].ref_count = 0,
                                   ![info].destroy_timeout = NewSource]
         /\ sources' = With(sources, NewSource, info)

\* a font_info_destroy that arms no timeout
font_info_destroy_without_timeout(info) ==
    IF info = NULL
    THEN UNCHANGED <<infos, sources>>
    ELSE IF ~(infos[info].ref_count > 0)
    THEN UNCHANGED <<infos, sources>>
    ELSE /\ infos' = [infos EXCEPT ![info].ref_count = @ - 1]
         /\ UNCHANGED sources

\* a font_info_destroy that arms a timeout again when the ref_count is 0 already
font_info_destroy_rearming(info) ==
    IF info = NULL
    THEN UNCHANGED <<infos, sources>>
    ELSE IF infos[info].ref_count - 1 > 0
    THEN /\ infos' = [infos EXCEPT ![info].ref_count = @ - 1]
         /\ UNCHANGED sources
    ELSE /\ infos' = [infos EXCEPT ![info].ref_count = 0,
                                   ![info].destroy_timeout = NewSource]
         /\ sources' = With(sources, NewSource, info)

\* font_info_destroy: the last reference arms the timeout
font_info_destroy(info) ==
    IF info = NULL
    THEN UNCHANGED <<infos, sources>>
    ELSE IF ~(infos[info].ref_count > 0)
    THEN UNCHANGED <<infos, sources>>
    ELSE IF infos[info].ref_count - 1 # 0
    THEN /\ infos' = [infos EXCEPT ![info].ref_count = @ - 1]
         /\ UNCHANGED sources
    ELSE /\ infos' = [infos EXCEPT ![info].ref_count = 0,
                                   ![info].destroy_timeout = NewSource]
         /\ sources' = With(sources, NewSource, info)

\* font_info_destroy_delayed, the timeout's callback
font_info_destroy_delayed(info) ==
    /\ font_info_for_context' = font_info_unregister(font_info_for_context, info)
    /\ infos' = Without(infos, info)
    /\ freed' = freed \cup {infos[info].context}

\* font_info_find_for_context
font_info_find_for_context(context, chars, probe) ==
    LET info == g_hash_table_lookup(context)
    IN  IF info # NULL
        THEN /\ font_info_reference(info)
             /\ ret' = info
             /\ UNCHANGED <<font_info_for_context, next_info>>
        ELSE LET new == [font_info_allocate(context, chars, probe) EXCEPT !.ref_count = 1]
             IN  /\ infos' = With(infos, next_info, new)
                 /\ font_info_for_context' =
                        font_info_register(font_info_for_context, infos', next_info)
                 /\ next_info' = next_info + 1
                 /\ ret' = next_info
                 /\ UNCHANGED sources

\* pango_font_map_create_context (pango_cairo_font_map_get_default ())
DefaultContext ==
    [font_map |-> "cairo", resolution |-> 96, font_options |-> "none"]

\* a font_info_create_for_context that keeps the context it is given
font_info_context_as_given(context, desc, language, fontconfig_timestamp) ==
    [resolution |-> context.resolution,
     desc |-> desc,
     font_options |-> IF context.font_options = "none" THEN "default"
                      ELSE context.font_options,
     language |-> language,
     fontconfig_timestamp |-> fontconfig_timestamp]

\* font_info_create_for_context, up to the lookup: the context whose
\* font_info is looked up
font_info_context(context, desc, language, fontconfig_timestamp) ==
    LET c1 == IF context.font_map # "cairo" THEN DefaultContext ELSE context
        c2 == IF c1.font_options = "none"
              THEN [c1 EXCEPT !.font_options = "default"]
              ELSE c1
    IN  [resolution |-> c2.resolution,
         desc |-> desc,
         font_options |-> c2.font_options,
         language |-> language,
         fontconfig_timestamp |-> fontconfig_timestamp]

\* font_info_create_for_widget, through font_info_create_for_screen
widget_context(widget, desc) ==
    font_info_context(
        [font_map |-> widget.font_map, resolution |-> widget.resolution,
         font_options |-> widget.font_options],
        desc, widget.language, widget.fontconfig_timestamp)

font_info_create_for_widget(widget, desc, chars, probe) ==
    font_info_find_for_context(widget_context(widget, desc), chars, probe)

\* ------------------------------------------------------------- _vte_draw

NoDraw == [live |-> FALSE]

\* _vte_draw_new: g_slice_new0
NewDraw ==
    [live |-> TRUE,
     cr |-> NULL,
     fonts |-> [s \in Styles |-> NULL],
     cell_width |-> 0, cell_height |-> 0,
     char_spacing |-> [left |-> 0, right |-> 0, top |-> 0, bottom |-> 0],
     undercurl_surface |-> NULL,
     undercurl_look |-> [cell_width |-> 0, line_width |-> 0, y |-> 0]]

\* a _vte_draw that keeps its undercurl surface
KeepUndercurl(draw) == draw

\* cairo_surface_destroy (draw->undercurl_surface), if there is one;
\* undercurl_look is what the surface shows
DropUndercurl(draw) ==
    [draw EXCEPT !.undercurl_surface = NULL,
                 !.undercurl_look = [cell_width |-> 0, line_width |-> 0, y |-> 0]]

Idle == [draw |-> 0]

\* a handler that returns nothing, asks the shaper nothing and draws nothing;
\* ret is the tuple of the values a handler returns
NoOut == [op |-> "none", args |-> << >>, ret |-> << >>, shaper |-> << >>, calls |-> << >>]

\* the four descriptions _vte_draw_set_text_font asks for
StyleDesc(fontdesc, style) ==
    LET bolddesc == [fontdesc EXCEPT !.weight = "bold"]
        italicdesc == [fontdesc EXCEPT !.style = "italic"]
        bolditalicdesc == [bolddesc EXCEPT !.style = "italic"]
    IN  CASE style = VTE_DRAW_NORMAL -> fontdesc
          [] style = VTE_DRAW_BOLD -> bolddesc
          [] style = VTE_DRAW_ITALIC -> italicdesc
          [] OTHER -> bolditalicdesc

\* how many font_info structs a _vte_draw_set_text_font call allocates
Misses(widget, fontdesc) ==
    Cardinality({ c \in { widget_context(widget, StyleDesc(fontdesc, s)) : s \in Styles } :
                    g_hash_table_lookup(c) = NULL })

_vte_draw_new(d) ==
    /\ pc = "idle"
    /\ ~draws[d].live
    /\ draws' = [draws EXCEPT ![d] = NewDraw]
    /\ out' = NoOut
    /\ UNCHANGED <<font_info_for_context, infos, next_info, sources, pc, cur, ret, freed>>

\* an iteration that does not compare the slot with the one before it
FreeFontsStepEvery ==
    /\ IF draws[cur.draw].fonts[cur.style] # NULL
       THEN /\ font_info_destroy(draws[cur.draw].fonts[cur.style])
            /\ draws' = [draws EXCEPT ![cur.draw].fonts[cur.style] = NULL]
       ELSE UNCHANGED <<infos, sources, draws>>
    /\ UNCHANGED <<font_info_for_context, next_info, ret, freed, out>>

\* one iteration of the loop that frees the fonts, in _vte_draw_free and
\* in _vte_draw_set_text_font
FreeFontsStep ==
    LET d == cur.draw
        style == cur.style
        fonts == draws[d].fonts
    IN  /\ IF fonts[style] # NULL /\ (style = 0 \/ fonts[style] # fonts[style - 1])
           THEN /\ font_info_destroy(fonts[style])
                /\ draws' = [draws EXCEPT ![d].fonts[style] = NULL]
           ELSE UNCHANGED <<infos, sources, draws>>
        /\ UNCHANGED <<font_info_for_context, next_info, ret, freed, out>>

_vte_draw_free(d) ==
    /\ pc = "idle"
    /\ draws[d].live
    /\ pc' = "free_fonts"
    /\ cur' = [draw |-> d, style |-> 3]
    /\ out' = NoOut
    /\ UNCHANGED <<font_info_for_context, infos, next_info, sources, draws, ret, freed>>

_vte_draw_free_fonts ==
    /\ pc = "free_fonts"
    /\ FreeFontsStep
    /\ IF cur.style = 0
       THEN pc' = "free_draw" /\ cur' = cur
       ELSE pc' = pc /\ cur' = [cur EXCEPT !.style = @ - 1]

_vte_draw_free_draw ==
    /\ pc = "free_draw"
    /\ draws' = [draws EXCEPT ![cur.draw] = NoDraw]
    /\ pc' = "idle"
    /\ cur' = Idle
    /\ UNCHANGED <<font_info_for_context, infos, next_info, sources, ret, freed, out>>

\* cur.fonts keeps the slots as they are when the handler is called
_vte_draw_set_text_font(d, widget, fontdesc, scales) ==
    /\ pc = "idle"
    /\ draws[d].live
    /\ next_info + Misses(widget, fontdesc) <= MaxInfos + 1
    /\ \A i \in DOMAIN infos : infos[i].ref_count < MaxRef
    /\ pc' = "set_free_fonts"
    /\ cur' = [draw |-> d, style |-> 3, widget |-> widget, fontdesc |-> fontdesc,
               cell_width_scale |-> scales[1], cell_height_scale |-> scales[2],
               fonts |-> draws[d].fonts]
    /\ out' = NoOut
    /\ UNCHANGED <<font_info_for_context, infos, next_info, sources, draws, ret, freed>>

_vte_draw_set_text_font_free ==
    /\ pc = "set_free_fonts"
    /\ FreeFontsStep
    /\ IF cur.style = 0
       THEN pc' = "set_create" /\ cur' = cur
       ELSE pc' = pc /\ cur' = [cur EXCEPT !.style = @ - 1]

\* draw->fonts[style] = font_info_create_for_widget (widget, desc of style)
_vte_draw_set_text_font_create(chars, probe) ==
    /\ pc = "set_create"
    /\ chars \in CharExtents(StyleDesc(cur.fontdesc, cur.style))
    /\ font_info_create_for_widget(cur.widget, StyleDesc(cur.fontdesc, cur.style),
                                   chars, probe)
    /\ draws' = [draws EXCEPT ![cur.draw].fonts[cur.style] = ret']
    /\ UNCHANGED <<freed, out>>
    /\ IF cur.style = 3
       THEN pc' = "set_reject" /\ cur' = [cur EXCEPT !.style = VTE_DRAW_NORMAL]
       ELSE pc' = pc /\ cur' = [cur EXCEPT !.style = @ + 1]

\* a test that rejects every bold font of another width
RejectOtherWidth(bold_width, normal_width) == bold_width # normal_width

\* "reject bold font if it is not within 10% of normal font width"
RejectBold(bold_width, normal_width) ==
    abs(((bold_width * 100) \div normal_width) - 100) > 10

\* the bold test, first with normal = VTE_DRAW_NORMAL, then VTE_DRAW_ITALIC
_vte_draw_set_text_font_reject ==
    /\ pc = "set_reject"
    /\ LET normal == cur.style
           bold == normal + VTE_DRAW_BOLD
           fonts == draws[cur.draw].fonts
       IN  /\ IF RejectBold(infos[fonts[bold]].width, infos[fonts[normal]].width)
              THEN /\ font_info_destroy(fonts[bold])
                   /\ draws' = [draws EXCEPT ![cur.draw].fonts[bold] = fonts[normal]]
              ELSE UNCHANGED <<infos, sources, draws>>
           /\ IF normal = VTE_DRAW_NORMAL
              THEN pc' = pc /\ cur' = [cur EXCEPT !.style = VTE_DRAW_ITALIC]
              ELSE pc' = "set_spacing" /\ cur' = cur
    /\ UNCHANGED <<font_info_for_context, next_info, ret, freed, out>>

\* (int) (value * scale) for a scale given as a fraction
Scaled(value, scale) == (value * scale.num) \div scale.den

\* a division that rounds down
FloorDiv(a, b) == a \div b

\* C's integer division rounds toward zero
CDiv(a, b) == IF a >= 0 THEN a \div b ELSE -((-a) \div b)

_vte_draw_set_text_font_spacing ==
    /\ pc = "set_spacing"
    /\ LET d == cur.draw
           normal == infos[draws[d].fonts[VTE_DRAW_NORMAL]]
           cell_width == Scaled(normal.width, cur.cell_width_scale)
           cell_height == Scaled(normal.height, cur.cell_height_scale)
       IN  draws' = [draws EXCEPT
                ![d] = DropUndercurl(
                    [@ EXCEPT
                        !.cell_width = cell_width,
                        !.cell_height = cell_height,
                        !.char_spacing =
                            [left |-> CDiv(cell_width - normal.width, 2),
                             right |-> CDiv(cell_width - normal.width + 1, 2),
                             top |-> CDiv(cell_height - normal.height + 1, 2),
                             bottom |-> CDiv(cell_height - normal.height, 2)]])]
    /\ pc' = "idle"
    /\ cur' = Idle
    /\ ret' = NULL
    /\ UNCHANGED <<font_info_for_context, infos, next_info, sources, freed, out>>

\* the main loop runs the callback of an armed timeout, which returns FALSE
TimeoutFires(s) ==
    /\ pc = "idle"
    /\ s \in DOMAIN sources
    /\ font_info_destroy_delayed(sources[s])
    /\ sources' = Without(sources, s)
    /\ out' = NoOut
    /\ UNCHANGED <<next_info, draws, pc, cur, ret>>

\* font_info_destroy called once more for a font_info that no terminal has
\* in a slot: whoever held it has released it
ReleaseAgain(info) ==
    /\ pc = "idle"
    /\ info \in DOMAIN infos
    /\ \A d \in Draws : draws[d].live => \A s \in Styles : draws[d].fonts[s] # info
    /\ font_info_destroy(info)
    /\ out' = [NoOut EXCEPT !.op = "font_info_destroy", !.args = [info |-> info]]
    /\ UNCHANGED <<font_info_for_context, next_info, draws, pc, cur, ret, freed>>

\* ------------------------------------------------------------------- text

\* What the shaper makes of the one character c, by kind: the layout after
\* pango_layout_set_text (info->layout, <c>).  The glyph of c in a font is c.
ShapeOf(c, kind) ==
    LET shape(w, runs) == Layout(<<c>>, w, Px(40), Px(30), runs)
        one(font, scaled_font, g, xo, yo, w) ==
            shape(w, <<Run(font, scaled_font, <<Glyph(g, xo, yo, w)>>,
                           <<Cluster(0, 1, 0, 1, 0, 1)>>)>>)
    IN  CASE kind = "simple" -> one(1, 1, c, 0, 0, Px(20))
          [] kind = "wide" -> one(1, 1, c, 0, 0, Px(23) + 1)
          [] kind = "half_wide" -> one(1, 1, c, 0, 0, Px(21) + 1)
          [] kind = "max16" -> one(1, 1, 65535, 0, 0, Px(20))
          [] kind = "over16" -> one(1, 1, 65536, 0, 0, Px(20))
          [] kind = "x_offset" -> one(1, 1, c, 64, 0, Px(20))
          [] kind = "y_offset" -> one(1, 1, c, 0, -64, Px(20))
          [] kind = "fallback_font" -> one(2, 2, c, 0, 0, Px(20))
          [] kind = "no_scaled_font" -> one(1, NULL, c, 0, 0, Px(20))
          [] kind = "unknown" -> one(2, 2, UnknownGlyph(c), 0, 0, Px(20))
          [] kind = "no_font" -> one(NULL, NULL, UnknownGlyph(c), 0, 0, Px(20))
          [] kind = "two_glyphs" ->
                shape(Px(20), <<Run(1, 1, <<Glyph(c, 0, 0, Px(20)), Glyph(c + 1, 0, 0, 0)>>,
                                    <<Cluster(0, 1, 0, 1, 0, 2)>>)>>)
          [] kind = "two_runs" ->
                shape(Px(40), <<Run(1, 1, <<Glyph(c, 0, 0, Px(20))>>,
                                    <<Cluster(0, 1, 0, 1, 0, 1)>>),
                                Run(2, 2, <<Glyph(c + 1, 0, 0, Px(20))>>,
                                    <<Cluster(0, 1, 0, 1, 0, 1)>>)>>)
          [] kind = "two_runs_unknown" ->
                shape(Px(40), <<Run(1, 1, <<Glyph(c, 0, 0, Px(20))>>,
                                    <<Cluster(0, 1, 0, 1, 0, 1)>>),
                                Run(2, 2, <<Glyph(UnknownGlyph(c), 0, 0, Px(20))>>,
                                    <<Cluster(0, 1, 0, 1, 0, 1)>>)>>)
          [] kind = "two_runs_one_font" ->
                shape(Px(40), <<Run(1, 1, <<Glyph(c, 0, 0, Px(20))>>,
                                    <<Cluster(0, 1, 0, 1, 0, 1)>>),
                                Run(1, 1, <<Glyph(c + 1, 0, 0, Px(20))>>,
                                    <<Cluster(0, 1, 0, 1, 0, 1)>>)>>)
          [] OTHER -> shape(0, << >>)

ShapeKinds ==
    { "simple", "wide", "half_wide", "max16", "over16", "x_offset", "y_offset", "fallback_font",
      "no_scaled_font", "unknown", "no_font", "two_glyphs", "two_runs",
      "two_runs_unknown", "two_runs_one_font", "no_runs" }

\* pango_cairo_font_get_scaled_font ((PangoCairoFont *) pango_font)
pango_cairo_font_get_scaled_font(glyph_item) ==
    IF glyph_item.font = NULL THEN NULL ELSE glyph_item.scaled_font

\* the value of a local that is assigned once: the element of a set of one
Local(S) == CHOOSE x \in S : TRUE

\* the fonts of the runs of a shaped line
FontsOf(layout) == { layout.runs[k].font : k \in DOMAIN layout.runs } \ {NULL}

\* a classification that never reports an unknown glyph
unistr_info_without_unknown(layout) ==
    LET glyph_item == layout.runs[1]
    IN  IF Len(layout.runs) # 1
        THEN [coverage |-> COVERAGE_USE_PANGO_LAYOUT_LINE,
              has_unknown_chars |-> FALSE,
              width |-> Guint16(PANGO_PIXELS_CEIL(layout.width)),
              ufi |-> [line |-> [runs |-> layout.runs, text |-> layout.text]]]
        ELSE IF /\ Len(glyph_item.glyphs) = 1
                /\ glyph_item.glyphs[1].glyph <= 65535
                /\ glyph_item.glyphs[1].x_offset = 0 /\ glyph_item.glyphs[1].y_offset = 0
                /\ pango_cairo_font_get_scaled_font(glyph_item) # NULL
        THEN [coverage |-> COVERAGE_USE_CAIRO_GLYPH,
              has_unknown_chars |-> FALSE,
              width |-> Guint16(PANGO_PIXELS_CEIL(layout.width)),
              ufi |-> [scaled_font |-> pango_cairo_font_get_scaled_font(glyph_item),
                       glyph_index |-> glyph_item.glyphs[1].glyph]]
        ELSE [coverage |-> COVERAGE_USE_PANGO_GLYPH_STRING,
              has_unknown_chars |-> FALSE,
              width |-> Guint16(PANGO_PIXELS_CEIL(layout.width)),
              ufi |-> [font |-> glyph_item.font, glyph_string |-> glyph_item.glyphs]]

\* a classification that counts the fonts of the line, not its runs
unistr_info_by_fonts(layout) ==
    LET glyph_item == layout.runs[1]
        glyph == glyph_item.glyphs[1]
        base == [coverage |-> COVERAGE_USE_PANGO_GLYPH_STRING,
                 has_unknown_chars |-> layout.unknown_glyphs # 0,
                 width |-> Guint16(PANGO_PIXELS_CEIL(layout.width)),
                 ufi |-> [line |-> [runs |-> layout.runs, text |-> layout.text]]]
    IN  IF Len(layout.runs) = 0 \/ Cardinality(FontsOf(layout)) > 1
        THEN [base EXCEPT !.coverage = COVERAGE_USE_PANGO_LAYOUT_LINE]
        ELSE IF /\ layout.unknown_glyphs = 0
                /\ Len(glyph_item.glyphs) = 1
                /\ glyph.glyph <= 65535
                /\ glyph.x_offset = 0 /\ glyph.y_offset = 0
                /\ pango_cairo_font_get_scaled_font(glyph_item) # NULL
        THEN [base EXCEPT !.coverage = COVERAGE_USE_CAIRO_GLYPH,
                          !.ufi = [scaled_font |-> pango_cairo_font_get_scaled_font(glyph_item),
                                   glyph_index |-> glyph.glyph]]
        ELSE [base EXCEPT !.ufi = [font |-> glyph_item.font,
                                   glyph_string |-> glyph_item.glyphs]]

\* a classification whose fast cairo path takes no glyph 0xFFFF
unistr_info_below_16_bits(layout) ==
    LET glyph_item == layout.runs[1]
        glyph == glyph_item.glyphs[1]
        base == [coverage |-> COVERAGE_USE_PANGO_GLYPH_STRING,
                 has_unknown_chars |-> layout.unknown_glyphs # 0,
                 width |-> Guint16(PANGO_PIXELS_CEIL(layout.width)),
                 ufi |-> [line |-> [runs |-> layout.runs, text |-> layout.text]]]
    IN  IF Len(layout.runs) # 1
        THEN [base EXCEPT !.coverage = COVERAGE_USE_PANGO_LAYOUT_LINE]
        ELSE IF /\ layout.unknown_glyphs = 0
                /\ Len(glyph_item.glyphs) = 1
                /\ glyph.glyph < 65535
                /\ glyph.x_offset = 0 /\ glyph.y_offset = 0
                /\ pango_cairo_font_get_scaled_font(glyph_item) # NULL
        THEN [base EXCEPT !.coverage = COVERAGE_USE_CAIRO_GLYPH,
                          !.ufi = [scaled_font |-> pango_cairo_font_get_scaled_font(glyph_item),
                                   glyph_index |-> glyph.glyph]]
        ELSE [base EXCEPT !.ufi = [font |-> glyph_item.font,
                                   glyph_string |-> glyph_item.glyphs]]

\* font_info_get_unistr_info, from the shaped layout on: the entry of the
\* character the layout was shaped for
\* a font_info_get_unistr_info without its "use pango fast path otherwise"
unistr_info_without_glyph_string(layout) ==
    LET width == Guint16(PANGO_PIXELS_CEIL(layout.width))
        has_unknown_chars == layout.unknown_glyphs # 0
        runs == layout.runs
        glyph_item == runs[1]
        glyph_string == glyph_item.glyphs
        scaled_font == pango_cairo_font_get_scaled_font(glyph_item)
    IN  IF Len(runs) # 1
        THEN [coverage |-> COVERAGE_USE_PANGO_LAYOUT_LINE,
              has_unknown_chars |-> has_unknown_chars, width |-> width,
              ufi |-> [line |-> [runs |-> runs, text |-> layout.text]]]
        ELSE IF /\ ~has_unknown_chars
                /\ Len(glyph_string) = 1
                /\ glyph_string[1].glyph <= 65535
                /\ glyph_string[1].x_offset = 0 /\ glyph_string[1].y_offset = 0
                /\ scaled_font # NULL
        THEN [coverage |-> COVERAGE_USE_CAIRO_GLYPH,
              has_unknown_chars |-> has_unknown_chars, width |-> width,
              ufi |-> [scaled_font |-> scaled_font,
                       glyph_index |-> glyph_string[1].glyph]]
        ELSE [coverage |-> COVERAGE_UNKNOWN,
              has_unknown_chars |-> has_unknown_chars, width |-> width,
              ufi |-> [unset |-> TRUE]]

unistr_info_of_layout(layout) ==
    LET width == Guint16(PANGO_PIXELS_CEIL(layout.width))
        has_unknown_chars == layout.unknown_glyphs # 0
        runs == layout.runs
        glyph_item == runs[1]
        glyph_string == glyph_item.glyphs
        scaled_font == pango_cairo_font_get_scaled_font(glyph_item)
    IN  IF Len(runs) # 1
        THEN [coverage |-> COVERAGE_USE_PANGO_LAYOUT_LINE,
              has_unknown_chars |-> has_unknown_chars, width |-> width,
              ufi |-> [line |-> [runs |-> runs, text |-> layout.text]]]
        ELSE IF /\ ~has_unknown_chars
                /\ Len(glyph_string) = 1
                /\ glyph_string[1].glyph <= 65535
                /\ glyph_string[1].x_offset = 0 /\ glyph_string[1].y_offset = 0
                /\ scaled_font # NULL
        THEN [coverage |-> COVERAGE_USE_CAIRO_GLYPH,
              has_unknown_chars |-> has_unknown_chars, width |-> width,
              ufi |-> [scaled_font |-> scaled_font,
                       glyph_index |-> glyph_string[1].glyph]]
        ELSE [coverage |-> COVERAGE_USE_PANGO_GLYPH_STRING,
              has_unknown_chars |-> has_unknown_chars, width |-> width,
              ufi |-> [font |-> glyph_item.font, glyph_string |-> glyph_string]]

\* a font_info_get_unistr_info that shapes whatever the entry holds
font_info_shape_unistr_info(info, c, layout) ==
    Local({ [info |-> [SetUnistrInfo(info, c, uinfo) EXCEPT !.layout = EmptyLayout],
             uinfo |-> uinfo,
             shaper |-> <<layout>>] : uinfo \in {unistr_info_of_layout(layout)} })

\* font_info_get_unistr_info: layout is what the shaper answers if it is
\* asked.  The result: the font_info afterwards, the entry returned, and
\* the layouts the shaper was asked for.
font_info_get_unistr_info(info, c, layout) ==
    LET found == font_info_find_unistr_info(info, c)
    IN  IF found.coverage # COVERAGE_UNKNOWN
        THEN [info |-> info, uinfo |-> found, shaper |-> << >>]
        ELSE Local({ [info |-> [SetUnistrInfo(info, c, uinfo)
                                  EXCEPT !.layout = EmptyLayout],
                      uinfo |-> uinfo,
                      shaper |-> <<layout>>] :
                     uinfo \in {unistr_info_of_layout(layout)} })

\* a test that leaves out the characters of WITH_UNICODE_NEXT
_vte_draw_unichar_is_box_or_block(c) ==
    (c >= 9472 /\ c <= 9631) \/ (c >= 9698 /\ c <= 9701)

\* _vte_draw_unichar_is_local_graphic: U+2500..U+259F, U+25E2..U+25E5 and,
\* WITH_UNICODE_NEXT being defined, U+1FB00..U+1FBFF
_vte_draw_unichar_is_local_graphic(c) ==
    \/ (c >= 9472 /\ c <= 9631)
    \/ (c >= 9698 /\ c <= 9701)
    \/ (c >= 129792 /\ c <= 130047)

\* vte_bidi_get_mirror_char: the mirror of c, with box drawing characters
\* mirrored too when box_mirror is set
vte_bidi_get_mirror_char(c, box_mirror) ==
    CASE c = 40 -> 41
      [] c = 41 -> 40
      [] c = 9484 /\ box_mirror -> 9488
      [] c = 9488 /\ box_mirror -> 9484
      [] OTHER -> c

\* struct _vte_draw_text_request
Request(c, x, y, columns, mirror, box_mirror) ==
    [c |-> c, x |-> x, y |-> y, columns |-> columns, mirror |-> mirror,
     box_mirror |-> box_mirror]

\* edges that never centre a character in its cell
get_char_edges_from_left(draw, heap, c, columns, style, shaper) ==
    IF _vte_draw_unichar_is_local_graphic(c)
    THEN [heap |-> heap, left |-> 0, right |-> draw.cell_width * columns, shaper |-> << >>]
    ELSE IF draw.fonts[VTE_DRAW_NORMAL] = NULL
    THEN [heap |-> heap, left |-> 0, right |-> 0, shaper |-> << >>]
    ELSE Local({ LET w == r.uinfo.width
                     normal_width == heap[draw.fonts[VTE_DRAW_NORMAL]].width * columns
                     fits_width == draw.cell_width * columns
                     l == IF w <= normal_width
                          THEN draw.char_spacing.left +
                               (IF columns = 2 THEN draw.char_spacing.right ELSE 0)
                          ELSE 0
                 IN  [heap |-> [heap EXCEPT ![draw.fonts[style]] = r.info],
                      left |-> l, right |-> l + w, shaper |-> r.shaper] :
                 r \in {font_info_get_unistr_info(heap[draw.fonts[style]], c,
                                                  ShapeOf(c, shaper[c]))} })

\* _vte_draw_get_char_edges on the heap: the heap afterwards, the edges, and
\* what the shaper was asked
get_char_edges(draw, heap, c, columns, style, shaper) ==
    IF _vte_draw_unichar_is_local_graphic(c)
    THEN [heap |-> heap, left |-> 0, right |-> draw.cell_width * columns, shaper |-> << >>]
    ELSE IF draw.fonts[VTE_DRAW_NORMAL] = NULL
    THEN [heap |-> heap, left |-> 0, right |-> 0, shaper |-> << >>]
    ELSE Local({ LET w == r.uinfo.width
                     normal_width == heap[draw.fonts[VTE_DRAW_NORMAL]].width * columns
                     fits_width == draw.cell_width * columns
                     l == IF w <= normal_width
                          THEN draw.char_spacing.left +
                               (IF columns = 2 THEN draw.char_spacing.right ELSE 0)
                          ELSE IF w <= fits_width
                          THEN CDiv(fits_width - w, 2)
                          ELSE 0
                 IN  [heap |-> [heap EXCEPT ![draw.fonts[style]] = r.info],
                      left |-> l, right |-> l + w, shaper |-> r.shaper] :
                 r \in {font_info_get_unistr_info(heap[draw.fonts[style]], c,
                                                  ShapeOf(c, shaper[c]))} })

\* a _vte_draw_has_char that finds every character it has classified
has_char_classified(draw, heap, c, style, shaper) ==
    IF draw.fonts[VTE_DRAW_NORMAL] = NULL
    THEN [heap |-> heap, ret |-> FALSE, shaper |-> << >>]
    ELSE Local({ [heap |-> [heap EXCEPT ![draw.fonts[style]] = r.info],
                  ret |-> r.uinfo.coverage # COVERAGE_UNKNOWN, shaper |-> r.shaper] :
                 r \in {font_info_get_unistr_info(heap[draw.fonts[style]], c,
                                                  ShapeOf(c, shaper[c]))} })

\* _vte_draw_has_char on the heap
has_char(draw, heap, c, style, shaper) ==
    IF draw.fonts[VTE_DRAW_NORMAL] = NULL
    THEN [heap |-> heap, ret |-> FALSE, shaper |-> << >>]
    ELSE Local({ [heap |-> [heap EXCEPT ![draw.fonts[style]] = r.info],
                  ret |-> ~r.uinfo.has_unknown_chars, shaper |-> r.shaper] :
                 r \in {font_info_get_unistr_info(heap[draw.fonts[style]], c,
                                                  ShapeOf(c, shaper[c]))} })

\* a cairo_show_glyphs that leaves n_cr_glyphs as it is
ShowGlyphsAgain(st) ==
    [st EXCEPT !.calls = Append(@, [call |-> "show_glyphs",
                                    scaled_font |-> st.last_scaled_font,
                                    glyphs |-> st.cr_glyphs])]

\* cairo_set_scaled_font and cairo_show_glyphs of the glyphs collected
ShowGlyphs(st) ==
    [st EXCEPT !.calls = Append(@, [call |-> "show_glyphs",
                                    scaled_font |-> st.last_scaled_font,
                                    glyphs |-> st.cr_glyphs]),
               !.cr_glyphs = << >>]

\* a run that never ends at MAX_RUN_LENGTH glyphs
RunEndsAtFontOnly(last_scaled_font, n_cr_glyphs, scaled_font) ==
    last_scaled_font # scaled_font

\* a run that ends after every glyph
RunEndsAlways(last_scaled_font, n_cr_glyphs, scaled_font) == TRUE

\* case COVERAGE_USE_CAIRO_GLYPH: the run of glyphs collected ends before
\* this glyph
RunEnds(last_scaled_font, n_cr_glyphs, scaled_font) ==
    last_scaled_font # scaled_font \/ n_cr_glyphs = MAX_RUN_LENGTH

\* a switch whose other cases show the glyphs collected before they draw
DrawGlyphFlushing(draw, request, r, edges, st) ==
    LET x == edges.left + request.x
        y == request.y + draw.char_spacing.top + edges.heap[draw.fonts[VTE_DRAW_NORMAL]].ascent
        ufi == r.uinfo.ufi
        st1 == [st EXCEPT !.heap = edges.heap, !.shaper = @ \o r.shaper \o edges.shaper]
        flushed == IF Len(st1.cr_glyphs) # 0 THEN ShowGlyphs(st1) ELSE st1
    IN  CASE r.uinfo.coverage = COVERAGE_USE_PANGO_LAYOUT_LINE ->
                [flushed EXCEPT !.calls = Append(@, [call |-> "show_layout_line",
                                                 x |-> x, y |-> y, line |-> ufi.line])]
          [] r.uinfo.coverage = COVERAGE_USE_PANGO_GLYPH_STRING ->
                [flushed EXCEPT !.calls = Append(@, [call |-> "show_glyph_string",
                                                 x |-> x, y |-> y, font |-> ufi.font,
                                                 glyph_string |-> ufi.glyph_string])]
          [] OTHER ->
                [(IF RunEnds(st.last_scaled_font, Len(st.cr_glyphs), ufi.scaled_font)
                  THEN [(IF Len(st.cr_glyphs) # 0 THEN ShowGlyphs(st1) ELSE st1)
                           EXCEPT !.last_scaled_font = ufi.scaled_font]
                  ELSE st1)
                    EXCEPT !.cr_glyphs = Append(@, [index |-> ufi.glyph_index,
                                                    x |-> x, y |-> y])]

\* a switch that takes the baseline from the ascent of the bold font
DrawGlyphBoldAscent(draw, request, r, edges, st) ==
    LET x == edges.left + request.x
        y == request.y + draw.char_spacing.top + edges.heap[draw.fonts[VTE_DRAW_BOLD]].ascent
        ufi == r.uinfo.ufi
        st1 == [st EXCEPT !.heap = edges.heap, !.shaper = @ \o r.shaper \o edges.shaper]
    IN  CASE r.uinfo.coverage = COVERAGE_USE_PANGO_LAYOUT_LINE ->
                [st1 EXCEPT !.calls = Append(@, [call |-> "show_layout_line",
                                                 x |-> x, y |-> y, line |-> ufi.line])]
          [] r.uinfo.coverage = COVERAGE_USE_PANGO_GLYPH_STRING ->
                [st1 EXCEPT !.calls = Append(@, [call |-> "show_glyph_string",
                                                 x |-> x, y |-> y, font |-> ufi.font,
                                                 glyph_string |-> ufi.glyph_string])]
          [] OTHER ->
                [(IF RunEnds(st.last_scaled_font, Len(st.cr_glyphs), ufi.scaled_font)
                  THEN [(IF Len(st.cr_glyphs) # 0 THEN ShowGlyphs(st1) ELSE st1)
                           EXCEPT !.last_scaled_font = ufi.scaled_font]
                  ELSE st1)
                    EXCEPT !.cr_glyphs = Append(@, [index |-> ufi.glyph_index,
                                                    x |-> x, y |-> y])]

\* the switch on uinfo->coverage in the loop of _vte_draw_text_internal: r is
\* what font_info_get_unistr_info returned, edges what _vte_draw_get_char_edges
\* did, st the locals before the turn
DrawGlyph(draw, request, r, edges, st) ==
    LET x == edges.left + request.x
        y == request.y + draw.char_spacing.top + edges.heap[draw.fonts[VTE_DRAW_NORMAL]].ascent
        ufi == r.uinfo.ufi
        st1 == [st EXCEPT !.heap = edges.heap, !.shaper = @ \o r.shaper \o edges.shaper]
    IN  CASE r.uinfo.coverage = COVERAGE_UNKNOWN ->
                [st1 EXCEPT !.aborted = TRUE]
          [] r.uinfo.coverage = COVERAGE_USE_PANGO_LAYOUT_LINE ->
                [st1 EXCEPT !.calls = Append(@, [call |-> "show_layout_line",
                                                 x |-> x, y |-> y, line |-> ufi.line])]
          [] r.uinfo.coverage = COVERAGE_USE_PANGO_GLYPH_STRING ->
                [st1 EXCEPT !.calls = Append(@, [call |-> "show_glyph_string",
                                                 x |-> x, y |-> y, font |-> ufi.font,
                                                 glyph_string |-> ufi.glyph_string])]
          [] OTHER ->
                [(IF RunEnds(st.last_scaled_font, Len(st.cr_glyphs), ufi.scaled_font)
                  THEN [(IF Len(st.cr_glyphs) # 0 THEN ShowGlyphs(st1) ELSE st1)
                           EXCEPT !.last_scaled_font = ufi.scaled_font]
                  ELSE st1)
                    EXCEPT !.cr_glyphs = Append(@, [index |-> ufi.glyph_index,
                                                    x |-> x, y |-> y])]

\* a turn of the loop that draws the character of the request as it is
DrawRequestUnmirrored(draw, style, request, shaper, st) ==
    LET c == request.c
        font == st.heap[draw.fonts[style]]
    IN  IF _vte_draw_unichar_is_local_graphic(c)
        THEN [st EXCEPT !.calls = Append(@, [call |-> "draw_graphic", c |-> c,
                                             x |-> request.x, y |-> request.y,
                                             font_width |-> font.width,
                                             columns |-> request.columns,
                                             font_height |-> font.height])]
        ELSE Local({ Local({ DrawGlyph(draw, request, r, edges, st) :
                             edges \in {get_char_edges(draw,
                                            [st.heap EXCEPT ![draw.fonts[style]] = r.info],
                                            c, request.columns, style, shaper)} }) :
                     r \in {font_info_get_unistr_info(font, c, ShapeOf(c, shaper[c]))} })

\* a turn of the loop that shows the glyphs collected before it draws a graphic
DrawRequestFlushingGraphic(draw, style, request, shaper, st) ==
    LET c == IF request.mirror
             THEN vte_bidi_get_mirror_char(request.c, request.box_mirror)
             ELSE request.c
        font == st.heap[draw.fonts[style]]
    IN  IF _vte_draw_unichar_is_local_graphic(c)
        THEN [(IF Len(st.cr_glyphs) # 0 THEN ShowGlyphs(st) ELSE st)
                 EXCEPT !.calls = Append(@, [call |-> "draw_graphic", c |-> c,
                                             x |-> request.x, y |-> request.y,
                                             font_width |-> font.width,
                                             columns |-> request.columns,
                                             font_height |-> font.height])]
        ELSE Local({ Local({ DrawGlyph(draw, request, r, edges, st) :
                             edges \in {get_char_edges(draw,
                                            [st.heap EXCEPT ![draw.fonts[style]] = r.info],
                                            c, request.columns, style, shaper)} }) :
                     r \in {font_info_get_unistr_info(font, c, ShapeOf(c, shaper[c]))} })

\* one turn of the loop of _vte_draw_text_internal; st holds the heap, the
\* locals last_scaled_font and cr_glyphs, and what was drawn and shaped
DrawRequest(draw, style, request, shaper, st) ==
    LET c == IF request.mirror
             THEN vte_bidi_get_mirror_char(request.c, request.box_mirror)
             ELSE request.c
        font == st.heap[draw.fonts[style]]
    IN  IF _vte_draw_unichar_is_local_graphic(c)
        THEN [st EXCEPT !.calls = Append(@, [call |-> "draw_graphic", c |-> c,
                                             x |-> request.x, y |-> request.y,
                                             font_width |-> font.width,
                                             columns |-> request.columns,
                                             font_height |-> font.height])]
        ELSE Local({ Local({ DrawGlyph(draw, request, r, edges, st) :
                             edges \in {get_char_edges(draw,
                                            [st.heap EXCEPT ![draw.fonts[style]] = r.info],
                                            c, request.columns, style, shaper)} }) :
                     r \in {font_info_get_unistr_info(font, c, ShapeOf(c, shaper[c]))} })

\* turns i to j of the loop of _vte_draw_text_internal, the first half of
\* them and then the second
RECURSIVE DrawRequests(_, _, _, _, _, _, _)
DrawRequests(draw, style, requests, i, j, shaper, st) ==
    IF i > j
    THEN st
    ELSE IF i = j
    THEN DrawRequest(draw, style, requests[i], shaper, st)
    ELSE Local({ DrawRequests(draw, style, requests, ((i + j) \div 2) + 1, j, shaper, half) :
                 half \in {DrawRequests(draw, style, requests, i, (i + j) \div 2, shaper, st)} })

\* _vte_draw_text_internal on the heap
draw_text_internal(draw, heap, requests, style, shaper) ==
    LET st0 == [heap |-> heap, last_scaled_font |-> NULL, cr_glyphs |-> << >>,
                calls |-> <<[call |-> "set_source_rgba"], [call |-> "set_operator"]>>,
                shaper |-> << >>, aborted |-> FALSE]
    IN  IF draw.fonts[style] = NULL
        THEN [st0 EXCEPT !.calls = << >>]
        ELSE IF draw.cr = NULL
        THEN [st0 EXCEPT !.calls = << >>, !.aborted = TRUE]
        ELSE Local({ IF Len(st.cr_glyphs) # 0 THEN ShowGlyphs(st) ELSE st :
                     st \in {DrawRequests(draw, style, requests, 1, Len(requests), shaper, st0)} })

\* _vte_draw_text on the heap: g_assert (draw->cr), then the loop
draw_text(draw, heap, requests, style, shaper) ==
    IF draw.cr = NULL
    THEN [heap |-> heap, calls |-> << >>, shaper |-> << >>, aborted |-> TRUE]
    ELSE draw_text_internal(draw, heap, requests, style, shaper)

_vte_draw_set_cairo(d, cr) ==
    /\ pc = "idle"
    /\ draws[d].live
    /\ IF (cr # NULL) = (draws[d].cr = NULL)
       THEN draws' = [draws EXCEPT ![d].cr = cr] /\ pc' = pc
       ELSE draws' = draws /\ pc' = "aborted"
    /\ out' = [NoOut EXCEPT !.op = "set_cairo", !.args = [draw |-> d, cr |-> cr]]
    /\ UNCHANGED <<font_info_for_context, infos, next_info, sources, cur, ret, freed>>

_vte_draw_has_char(d, c, style, shaper) ==
    /\ pc = "idle"
    /\ draws[d].live
    /\ \E r \in {has_char(draws[d], infos, c, style, shaper)} :
           /\ infos' = r.heap
           /\ out' = [op |-> "has_char", args |-> [draw |-> d, c |-> c, style |-> style],
                      ret |-> <<r.ret>>, shaper |-> r.shaper,
                      calls |-> << >>]
    /\ UNCHANGED <<font_info_for_context, next_info, sources, draws, pc, cur, ret, freed>>

_vte_draw_get_char_edges(d, c, columns, style, shaper) ==
    /\ pc = "idle"
    /\ draws[d].live
    /\ \E r \in {get_char_edges(draws[d], infos, c, columns, style, shaper)} :
           /\ infos' = r.heap
           /\ out' = [op |-> "get_char_edges",
                      args |-> [draw |-> d, c |-> c, style |-> style, columns |-> columns],
                      ret |-> <<r.left, r.right>>,
                      shaper |-> r.shaper, calls |-> << >>]
    /\ UNCHANGED <<font_info_for_context, next_info, sources, draws, pc, cur, ret, freed>>

_vte_draw_text(d, requests, style, shaper) ==
    /\ pc = "idle"
    /\ draws[d].live
    /\ \E r \in {draw_text(draws[d], infos, requests, style, shaper)} :
           /\ infos' = r.heap
           /\ pc' = IF r.aborted THEN "aborted" ELSE pc
           /\ out' = [op |-> "text",
                      args |-> [draw |-> d, style |-> style, requests |-> requests],
                      ret |-> << >>, shaper |-> r.shaper,
                      calls |-> r.calls]
    /\ UNCHANGED <<font_info_for_context, next_info, sources, draws, cur, ret, freed>>

_vte_draw_char(d, request, style, shaper) ==
    /\ pc = "idle"
    /\ draws[d].live
    /\ \E h \in {has_char(draws[d], infos, request.c, style, shaper)} :
           IF h.ret
           THEN \E r \in {draw_text(draws[d], h.heap, <<request>>, style, shaper)} :
                /\ infos' = r.heap
                /\ pc' = IF r.aborted THEN "aborted" ELSE pc
                /\ out' = [op |-> "char",
                           args |-> [draw |-> d, style |-> style,
                                     requests |-> <<request>>],
                           ret |-> <<h.ret>>, shaper |-> h.shaper \o r.shaper,
                           calls |-> r.calls]
           ELSE /\ infos' = h.heap
                /\ pc' = pc
                /\ out' = [op |-> "char",
                           args |-> [draw |-> d, style |-> style,
                                     requests |-> <<request>>],
                           ret |-> <<h.ret>>, shaper |-> h.shaper,
                           calls |-> << >>]
    /\ UNCHANGED <<font_info_for_context, next_info, sources, draws, cur, ret, freed>>

\* ---------------------------------------------------------- specification

Init ==
    /\ font_info_for_context = {}
    /\ infos = << >>
    /\ next_info = 1
    /\ sources = << >>
    /\ draws = [d \in Draws |-> NoDraw]
    /\ pc = "idle"
    /\ cur = Idle
    /\ ret = NULL
    /\ freed = {}
    /\ out = NoOut

\* ---------------------------------------------------- rectangles, undercurl

\* a handler that paints: g_assert (draw->cr), then its cairo calls
Paint(d, op, args, calls) ==
    /\ pc = "idle"
    /\ draws[d].live
    /\ IF draws[d].cr = NULL
       THEN /\ pc' = "aborted"
            /\ out' = [NoOut EXCEPT !.op = op, !.args = args]
       ELSE /\ pc' = pc
            /\ out' = [NoOut EXCEPT !.op = op, !.args = args, !.calls = calls]

\* a _vte_draw_clear without its g_assert
_vte_draw_clear_unasserted(d, rect) ==
    /\ pc = "idle"
    /\ draws[d].live
    /\ pc' = pc
    /\ out' = [NoOut EXCEPT !.op = "clear", !.args = [draw |-> d, rect |-> rect],
                            !.calls = <<[call |-> "rectangle", rect |-> rect],
                                        [call |-> "set_operator"],
                                        [call |-> "set_source_rgba"], [call |-> "fill"]>>]
    /\ UNCHANGED <<font_info_for_context, infos, next_info, sources, draws, cur, ret, freed>>

_vte_draw_clear(d, rect) ==
    /\ Paint(d, "clear", [draw |-> d, rect |-> rect],
             <<[call |-> "rectangle", rect |-> rect], [call |-> "set_operator"],
               [call |-> "set_source_rgba"], [call |-> "fill"]>>)
    /\ UNCHANGED <<font_info_for_context, infos, next_info, sources, draws, cur, ret, freed>>

_vte_draw_draw_rectangle(d, rect) ==
    /\ Paint(d, "draw_rectangle", [draw |-> d, rect |-> rect],
             <<[call |-> "set_operator"], [call |-> "rectangle", rect |-> rect],
               [call |-> "set_source_rgba"], [call |-> "set_line_width"],
               [call |-> "stroke"]>>)
    /\ UNCHANGED <<font_info_for_context, infos, next_info, sources, draws, cur, ret, freed>>

_vte_draw_fill_rectangle(d, rect) ==
    /\ Paint(d, "fill_rectangle", [draw |-> d, rect |-> rect],
             <<[call |-> "set_operator"], [call |-> "rectangle", rect |-> rect],
               [call |-> "set_source_rgba"], [call |-> "fill"]>>)
    /\ UNCHANGED <<font_info_for_context, infos, next_info, sources, draws, cur, ret, freed>>

\* the look _vte_draw_draw_undercurl caches: what the surface is drawn from
UndercurlLook(draw, y, line_width) ==
    [cell_width |-> draw.cell_width, line_width |-> line_width, y |-> y]

\* _vte_draw_draw_undercurl: the surface is made when there is none, and
\* masked count times, a cell apart
_vte_draw_draw_undercurl(d, x, y, line_width, count) ==
    LET x_padding == line_width + 1
        look == IF draws[d].undercurl_surface = NULL
                THEN UndercurlLook(draws[d], y, line_width)
                ELSE draws[d].undercurl_look
    IN  /\ Paint(d, "undercurl",
                 [draw |-> d, x |-> x, y |-> y, line_width |-> line_width, count |-> count],
                 <<[call |-> "save"], [call |-> "set_operator"], [call |-> "set_source_rgba"]>>
                 \o [i \in 1 .. count |->
                        [call |-> "mask_surface", surface |-> look,
                         x |-> x - x_padding + (i - 1) * draws[d].cell_width, y |-> y]]
                 \o <<[call |-> "restore"]>>)
        /\ draws' = IF draws[d].cr = NULL
                    THEN draws
                    ELSE [draws EXCEPT ![d].undercurl_surface = 1,
                                       ![d].undercurl_look = look]
        /\ UNCHANGED <<font_info_for_context, infos, next_info, sources, cur, ret, freed>>

\* clearing, rectangles and undercurls
NextPaint(In) ==
    \/ \E d \in In.draws, r \in In.rects : _vte_draw_clear(d, r)
    \/ \E d \in In.draws, r \in In.rects : _vte_draw_draw_rectangle(d, r)
    \/ \E d \in In.draws, r \in In.rects : _vte_draw_fill_rectangle(d, r)
    \/ \E d \in In.draws, u \in In.undercurls :
          _vte_draw_draw_undercurl(d, u.x, u.y, u.line_width, u.count)

\* creating and freeing terminals, setting their fonts, and the timeouts
NextFonts(In) ==
    \/ \E d \in In.draws : _vte_draw_new(d)
    \/ \E d \in In.draws : _vte_draw_free(d)
    \/ _vte_draw_free_fonts
    \/ _vte_draw_free_draw
    \/ \E d \in In.draws, w \in In.widgets, f \in In.descs, sc \in In.scales :
          _vte_draw_set_text_font(d, w, f, sc)
    \/ _vte_draw_set_text_font_free
    \/ \E ch \in In.chars, p \in In.probes : _vte_draw_set_text_font_create(ch, p)
    \/ _vte_draw_set_text_font_reject
    \/ _vte_draw_set_text_font_spacing
    \/ \E s \in DOMAIN sources : TimeoutFires(s)

\* two terminals of one screen, set to a regular or to a bold font
FontInputs ==
    [draws |-> {1, 2},
     widgets |-> {Widget("cairo", 96, "none", "en", 1)},
     descs |-> {FontDesc("normal", "normal"), FontDesc("bold", "normal")},
     scales |-> {<<Scale(5, 4), Scale(3, 2)>>},
     chars |-> AllCharExtents,
     probes |-> {ProbeSimple}]

SpecFonts == Init /\ [][NextFonts(FontInputs)]_vars

\* asking for characters and drawing text
NextText(In) ==
    \/ \E d \in In.draws, cr \in {NULL, 1} : _vte_draw_set_cairo(d, cr)
    \/ \E d \in In.draws, c \in In.points, st \in In.styles, sh \in In.shapers :
          _vte_draw_has_char(d, c, st, sh)
    \/ \E d \in In.draws, c \in In.points, n \in In.columns, st \in In.styles,
          sh \in In.shapers :
          _vte_draw_get_char_edges(d, c, n, st, sh)
    \/ \E d \in In.draws, rq \in In.requests, st \in In.styles, sh \in In.shapers :
          _vte_draw_text(d, rq, st, sh)
    \/ \E d \in In.draws, rq \in In.requests, st \in In.styles, sh \in In.shapers :
          _vte_draw_char(d, rq[1], st, sh)

\* the characters the shaper is asked about
ShapedPoints == {32, 40, 41, 65, 955, 9472, 9484, 9488, 129792}

\* one terminal with a regular font, drawing in its bold font; the font's
\* sample text shapes so that "A" is not cached with it
TextInputs ==
    [draws |-> {1},
     widgets |-> {Widget("cairo", 96, "none", "en", 1)},
     descs |-> {FontDesc("normal", "normal")},
     scales |-> {<<Scale(5, 4), Scale(3, 2)>>},
     chars |-> { {Extent(Px(20), Px(40))},
                 {Extent(Px(20), Px(40)), Extent(Px(20) + 1, Px(40))} },
     probes |-> {ProbeOdd},
     points |-> {65, 955},
     styles |-> {VTE_DRAW_BOLD},
     columns |-> {1},
     requests |-> { <<Request(65, 0, 0, 1, FALSE, FALSE)>>,
                    <<Request(955, 0, 0, 1, FALSE, FALSE), Request(65, 25, 0, 1, FALSE, FALSE),
                      Request(9472, 50, 0, 1, FALSE, FALSE)>> },
     shapers |-> { [c \in ShapedPoints |-> "simple"],
                   [c \in ShapedPoints |-> IF c < AsciiSize THEN "two_glyphs" ELSE "two_runs"] }]

Spec == Init /\ [][NextFonts(TextInputs) \/ NextText(TextInputs)]_vars

\* one terminal asking for U+03BB, which the shaper shapes in every way
ShapeInputs ==
    [draws |-> {1},
     widgets |-> {Widget("cairo", 96, "none", "en", 1)},
     descs |-> {FontDesc("normal", "normal")},
     scales |-> {<<Scale(5, 4), Scale(3, 2)>>},
     chars |-> { {Extent(Px(20), Px(40))},
                 {Extent(Px(20), Px(40)), Extent(Px(20) + 1, Px(40))} },
     probes |-> {ProbeSimple},
     points |-> {955},
     styles |-> {VTE_DRAW_BOLD},
     columns |-> {1},
     requests |-> { <<Request(955, 0, 0, 1, FALSE, FALSE)>> },
     shapers |-> { [c \in ShapedPoints |-> k] : k \in ShapeKinds }]

SpecShapes == Init /\ [][NextFonts(ShapeInputs) \/ NextText(ShapeInputs)]_vars

\* one terminal asking for "(" with fonts that may lack them: the
\* sample text and the single characters shape with or without unknown glyphs
UnknownInputs ==
    [draws |-> {1},
     widgets |-> {Widget("cairo", 96, "none", "en", 1)},
     descs |-> {FontDesc("normal", "normal")},
     scales |-> {<<Scale(5, 4), Scale(3, 2)>>},
     chars |-> { {Extent(Px(20), Px(40))},
                 {Extent(Px(20), Px(40)), Extent(Px(20) + 1, Px(40))} },
     probes |-> {ProbeSimple, ProbeUnknown},
     points |-> {40},
     styles |-> {VTE_DRAW_BOLD},
     columns |-> {1},
     requests |-> { <<Request(40, 0, 0, 1, FALSE, FALSE)>> },
     shapers |-> { [c \in ShapedPoints |-> k] :
                     k \in {"simple", "unknown", "two_runs_unknown"} }]

SpecUnknown == Init /\ [][NextFonts(UnknownInputs) \/ NextText(UnknownInputs)]_vars

\* the requests of a row of characters, one column each, 25 apart
Row(cs) == [i \in 1 .. Len(cs) |-> Request(cs[i], 25 * (i - 1), 7, 1, FALSE, FALSE)]

\* n times the character c
Repeat(c, n) == [i \in 1 .. n |-> c]

\* the lengths of the rows of one character
RunLengths == {1, 99, 100, 101, 150, 200, 201}

\* one terminal drawing rows of "A", which the sample text has cached: rows
\* as long as a run of glyphs or longer, and rows where U+03BB, shaped in
\* another font, stands at the end of a full run
RunInputs ==
    [draws |-> {1},
     widgets |-> {Widget("cairo", 96, "none", "en", 1)},
     descs |-> {FontDesc("normal", "normal")},
     scales |-> {<<Scale(5, 4), Scale(3, 2)>>},
     chars |-> { {Extent(Px(20), Px(40))},
                 {Extent(Px(20), Px(40)), Extent(Px(20) + 1, Px(40))} },
     probes |-> {ProbeSimple},
     points |-> {65},
     styles |-> {VTE_DRAW_BOLD},
     columns |-> {1},
     requests |-> { Row(Repeat(65, n)) : n \in RunLengths } \cup
                  { Row(Repeat(65, 99) \o <<955, 65, 65>>),
                    Row(Repeat(65, 100) \o <<955, 65>>) },
     shapers |-> { [c \in ShapedPoints |-> "fallback_font"] }]

SpecRuns == Init /\ [][NextFonts(RunInputs) \/ NextText(RunInputs)]_vars

\* one terminal drawing rows where U+03BB and U+2500 stand between the "A"
\* that the sample text has cached; U+03BB is shaped in the font of "A", in
\* another font, as two glyphs or as two runs
BatchInputs ==
    [draws |-> {1},
     widgets |-> {Widget("cairo", 96, "none", "en", 1)},
     descs |-> {FontDesc("normal", "normal")},
     scales |-> {<<Scale(5, 4), Scale(3, 2)>>},
     chars |-> { {Extent(Px(20), Px(40))},
                 {Extent(Px(20), Px(40)), Extent(Px(20) + 1, Px(40))} },
     probes |-> {ProbeSimple},
     points |-> {955},
     styles |-> {VTE_DRAW_BOLD},
     columns |-> {1},
     requests |-> { Row(<<955>>),
                    Row(<<65, 955, 65>>),
                    Row(<<65, 65, 955, 9472, 65, 955, 955, 32>>),
                    Row(Repeat(65, 101)) },
     shapers |-> { [c \in ShapedPoints |-> k] :
                     k \in {"simple", "fallback_font", "two_glyphs", "two_runs"} }]

SpecBatches == Init /\ [][NextFonts(BatchInputs) \/ NextText(BatchInputs)]_vars

\* one terminal drawing lines with box drawing characters, with U+1FB00 and
\* with mirrored brackets and corners
LineInputs ==
    [draws |-> {1},
     widgets |-> {Widget("cairo", 96, "none", "en", 1)},
     descs |-> {FontDesc("normal", "normal")},
     scales |-> {<<Scale(5, 4), Scale(3, 2)>>},
     chars |-> { {Extent(Px(20), Px(40))},
                 {Extent(Px(20), Px(40)), Extent(Px(20) + 1, Px(40))} },
     probes |-> {ProbeSimple},
     points |-> {129792},
     styles |-> {VTE_DRAW_BOLD},
     columns |-> {2},
     requests |-> { <<Request(41, 0, 7, 1, TRUE, FALSE)>>,
                    <<Request(9484, 0, 7, 1, TRUE, TRUE), Request(129792, 25, 7, 2, FALSE, FALSE)>>,
                    <<Request(40, 0, 7, 1, TRUE, FALSE), Request(9472, 25, 7, 1, TRUE, FALSE)>> },
     shapers |-> { [c \in ShapedPoints |-> "simple"] }]

SpecLines == Init /\ [][NextFonts(LineInputs) \/ NextText(LineInputs)]_vars

\* one terminal measuring and drawing U+03BB, one or two columns wide, in
\* its bold font; U+03BB is as wide as a regular character, wider but within
\* the cell, or wider than the cell
EdgeInputs ==
    [draws |-> {1},
     widgets |-> {Widget("cairo", 96, "none", "en", 1)},
     descs |-> {FontDesc("normal", "normal")},
     scales |-> {<<Scale(5, 4), Scale(3, 2)>>},
     chars |-> { {Extent(Px(20), Px(40))},
                 {Extent(Px(20), Px(40)), Extent(Px(20) + 1, Px(40))} },
     probes |-> {ProbeSimple},
     points |-> {955},
     styles |-> {VTE_DRAW_BOLD},
     columns |-> {1, 2},
     requests |-> { <<Request(955, 50, 7, 1, FALSE, FALSE)>> },
     shapers |-> { [c \in ShapedPoints |-> k] :
                     k \in {"simple", "half_wide", "wide", "two_runs"} }]

SpecEdges == Init /\ [][NextFonts(EdgeInputs) \/ NextText(EdgeInputs)]_vars

\* one terminal drawing "A" as a glyph, U+03BB as a glyph string and ")" as
\* a layout line, in its bold and in its italic font; the baseline of each
\* font is one of two
AscentInputs ==
    [draws |-> {1},
     widgets |-> {Widget("cairo", 96, "none", "en", 1)},
     descs |-> {FontDesc("normal", "normal")},
     scales |-> {<<Scale(5, 4), Scale(3, 2)>>},
     chars |-> { {Extent(Px(20), Px(40))},
                 {Extent(Px(20), Px(40)), Extent(Px(20) + 1, Px(40))} },
     probes |-> {ProbeSimple, ProbeDeep},
     points |-> {65},
     styles |-> {VTE_DRAW_BOLD, VTE_DRAW_ITALIC},
     columns |-> {1},
     requests |-> { <<Request(65, 0, 7, 1, FALSE, FALSE), Request(955, 25, 8, 1, FALSE, FALSE),
                      Request(41, 50, 9, 1, FALSE, FALSE)>> },
     shapers |-> { [c \in ShapedPoints |-> IF c = 41 THEN "two_runs" ELSE "two_glyphs"] }]

SpecAscent == Init /\ [][NextFonts(AscentInputs) \/ NextText(AscentInputs)]_vars

\* widgets on screens of two font maps, resolutions, font options and
\* fontconfig timestamps, in two languages
ContextWidgets ==
    { Widget(fm, res, opts, lang, ts) :
        fm \in {"cairo", "xft"}, res \in {72, 96}, opts \in {"none", "gray"},
        lang \in {"en", "ja"}, ts \in {1, 2} }

\* two terminals on one widget, and the contexts of all the widgets
ContextInputs ==
    [draws |-> {1, 2},
     widgets |-> {Widget("cairo", 96, "none", "en", 1)},
     descs |-> {FontDesc("normal", "normal")},
     scales |-> {<<Scale(5, 4), Scale(3, 2)>>},
     chars |-> AllCharExtents,
     probes |-> {ProbeSimple},
     contexts |-> { widget_context(w, FontDesc(weight, "normal")) :
                      w \in ContextWidgets, weight \in {"normal", "bold"} }]

\* two contexts, each made by a font_info_create_for_widget of its own
InitContexts ==
    /\ font_info_for_context = {}
    /\ infos = << >>
    /\ next_info = 1
    /\ sources = << >>
    /\ draws = [d \in Draws |-> NoDraw]
    /\ pc = "contexts"
    /\ cur \in [a : ContextInputs.contexts, b : ContextInputs.contexts]
    /\ ret = NULL
    /\ freed = {}
    /\ out = NoOut

\* what the hash table computes of two keys: the hash of each and context_equal
CompareContexts ==
    /\ pc = "contexts"
    /\ pc' = "idle"
    /\ cur' = Idle
    /\ out' = [NoOut EXCEPT !.op = "context_equal", !.args = cur,
                            !.ret = <<context_hash(cur.a), context_hash(cur.b),
                                      context_equal(cur.a, cur.b)>>]
    /\ UNCHANGED <<font_info_for_context, infos, next_info, sources, draws, ret, freed>>

SpecContexts == InitContexts /\ [][CompareContexts \/ NextFonts(ContextInputs)]_vars

\* the widths of a bold font and of the font it is compared with
WidthInputs == [bold : 1 .. MaxWidth, normal : 1 .. MaxWidth]

\* _vte_draw_set_text_font about to compare the widths of cur
InitWidths ==
    /\ font_info_for_context = {}
    /\ infos = << >>
    /\ next_info = 1
    /\ sources = << >>
    /\ draws = [d \in Draws |-> NoDraw]
    /\ pc = "set_reject"
    /\ cur \in WidthInputs
    /\ ret = NULL
    /\ freed = {}
    /\ out = NoOut

\* ratio = bold width * 100 / normal width; if (abs(ratio - 100) > 10)
CompareWidths ==
    /\ pc = "set_reject"
    /\ pc' = "idle"
    /\ out' = [NoOut EXCEPT !.op = "reject_bold", !.args = cur,
                            !.ret = <<RejectBold(cur.bold, cur.normal)>>]
    /\ UNCHANGED <<font_info_for_context, infos, next_info, sources, draws, cur, ret, freed>>

SpecWidths == InitWidths /\ [][CompareWidths]_vars

\* one terminal set to a regular font, 20 by 40, or to a bold one, 21 by 40
\* or 23 by 41, with cells scaled up, left as they are or scaled down; the
\* scales are fractions a double holds exactly
CellInputs ==
    [draws |-> {1},
     widgets |-> {Widget("cairo", 96, "none", "en", 1)},
     descs |-> {FontDesc("normal", "normal"), FontDesc("bold", "normal")},
     scales |-> { <<Scale(1, 1), Scale(1, 1)>>, <<Scale(5, 4), Scale(3, 2)>>,
                  <<Scale(5, 4), Scale(9, 8)>>, <<Scale(3, 4), Scale(3, 4)>> },
     chars |-> AllCharExtents,
     probes |-> {ProbeSimple}]

SpecCells == Init /\ [][NextFonts(CellInputs)]_vars

\* two terminals, one on a screen whose pango context has a cairo font map
\* and one on a screen whose context has another font map, another
\* resolution and font options of its own
FallbackInputs ==
    [draws |-> {1, 2},
     widgets |-> {Widget("cairo", 96, "none", "en", 1), Widget("xft", 72, "gray", "en", 1)},
     descs |-> {FontDesc("normal", "normal")},
     scales |-> {<<Scale(5, 4), Scale(3, 2)>>},
     chars |-> AllCharExtents,
     probes |-> {ProbeSimple}]

SpecFallback == Init /\ [][NextFonts(FallbackInputs)]_vars

\* one terminal set to a regular font and freed, and releases of the
\* font_info structs it has let go of
ReleaseInputs ==
    [draws |-> {1},
     widgets |-> {Widget("cairo", 96, "none", "en", 1)},
     descs |-> {FontDesc("normal", "normal")},
     scales |-> {<<Scale(5, 4), Scale(3, 2)>>},
     chars |-> AllCharExtents,
     probes |-> {ProbeSimple}]

SpecRelease ==
    Init /\ [][NextFonts(ReleaseInputs) \/ \E i \in DOMAIN infos : ReleaseAgain(i)]_vars

\* one terminal set to a regular font, whose bold fonts are rejected, and
\* freed
EvictInputs ==
    [draws |-> {1},
     widgets |-> {Widget("cairo", 96, "none", "en", 1)},
     descs |-> {FontDesc("normal", "normal")},
     scales |-> {<<Scale(5, 4), Scale(3, 2)>>},
     chars |-> { {Extent(Px(20), Px(40))}, {Extent(Px(23), Px(40) + 1)} },
     probes |-> {ProbeSimple}]

\* the steps of a handler that has begun
HandlerRuns(In) ==
    \/ _vte_draw_free_fonts
    \/ _vte_draw_free_draw
    \/ _vte_draw_set_text_font_free
    \/ \E ch \in In.chars, p \in In.probes : _vte_draw_set_text_font_create(ch, p)
    \/ _vte_draw_set_text_font_reject
    \/ _vte_draw_set_text_font_spacing

\* The main loop runs a handler to its end, and it dispatches a timeout
\* source that is armed whenever it comes round to it, however often other
\* handlers run in between.
SpecEvict ==
    /\ Init
    /\ [][NextFonts(EvictInputs)]_vars
    /\ WF_vars(HandlerRuns(EvictInputs))
    /\ \A s \in 1 .. MaxInfos : SF_vars(TimeoutFires(s))

\* creating terminals and setting their fonts
NextBuild(In) ==
    \/ \E d \in In.draws : _vte_draw_new(d)
    \/ \E d \in In.draws, w \in In.widgets, f \in In.descs, sc \in In.scales :
          _vte_draw_set_text_font(d, w, f, sc)
    \/ _vte_draw_set_text_font_free
    \/ \E ch \in In.chars, p \in In.probes : _vte_draw_set_text_font_create(ch, p)
    \/ _vte_draw_set_text_font_reject
    \/ _vte_draw_set_text_font_spacing

\* one terminal set to a bold italic font, whose four slots hold one
\* font_info; its sample text shapes in every way, and the language of the
\* widget includes the Latin script or does not
ProbeInputs ==
    [draws |-> {1},
     widgets |-> {Widget("cairo", 96, "none", "en", 1), Widget("cairo", 96, "none", "ja", 1)},
     descs |-> {FontDesc("bold", "italic")},
     scales |-> {<<Scale(5, 4), Scale(3, 2)>>},
     chars |-> AllCharExtents,
     probes |-> ProbeShapes]

SpecProbes == Init /\ [][NextBuild(ProbeInputs)]_vars

\* a terminal set to an italic font, again and again, on widgets that differ
\* in the resolution
DistinctInputs ==
    [draws |-> {1},
     widgets |-> {Widget("cairo", 96, "none", "en", 1), Widget("cairo", 120, "none", "en", 1)},
     descs |-> {FontDesc("normal", "italic")},
     scales |-> {<<Scale(5, 4), Scale(3, 2)>>},
     chars |-> AllCharExtents,
     probes |-> {ProbeSimple}]

SpecDistinct == Init /\ [][NextFonts(DistinctInputs)]_vars

\* the extents a shaper may report for the characters of a font: none, a
\* negative width, less than a pixel, a cell of 20 by 40
MeasureExtents ==
    { {Extent(w, h)} : w \in {0 - Px(1), 0, 1, Px(20)}, h \in {0, 1, Px(40)} }
        \cup { {Extent(0, 0), Extent(Px(20), Px(40))} }

\* a normal and a bold font about to be measured
InitMeasure ==
    /\ font_info_for_context = {}
    /\ infos = << >>
    /\ next_info = 1
    /\ sources = << >>
    /\ draws = [d \in Draws |-> NoDraw]
    /\ pc = "measure"
    /\ cur \in [normal : MeasureExtents, bold : MeasureExtents]
    /\ ret = NULL
    /\ freed = {}
    /\ out = NoOut

\* font_info_allocate of the normal and of the bold font, and the ratio of
\* their widths as _vte_draw_set_text_font computes it; a division by zero
\* stops the program
MeasureFonts ==
    /\ pc = "measure"
    /\ LET widget == Widget("cairo", 96, "none", "en", 1)
           normal == font_info_allocate(widget_context(widget, FontDesc("normal", "normal")),
                                        cur.normal, ProbeSimple)
           bold == font_info_allocate(widget_context(widget, FontDesc("bold", "normal")),
                                      cur.bold, ProbeSimple)
       IN  IF normal.width = 0
           THEN /\ pc' = "aborted"
                /\ out' = [NoOut EXCEPT !.op = "measure", !.args = cur,
                                        !.ret = <<normal.width, normal.height,
                                                  bold.width, bold.height>>]
           ELSE /\ pc' = "idle"
                /\ out' = [NoOut EXCEPT !.op = "measure", !.args = cur,
                                        !.ret = <<normal.width, normal.height,
                                                  bold.width, bold.height,
                                                  RejectBold(bold.width, normal.width)>>]
    /\ UNCHANGED <<font_info_for_context, infos, next_info, sources, draws, cur, ret, freed>>

SpecMeasure == InitMeasure /\ [][MeasureFonts]_vars

\* one terminal whose font is set with cells of 20 and of 25, with a cairo
\* context set and unset, drawing "A", a rectangle and undercurls
CanvasInputs ==
    [draws |-> {1},
     widgets |-> {Widget("cairo", 96, "none", "en", 1)},
     descs |-> {FontDesc("normal", "normal")},
     scales |-> {<<Scale(1, 1), Scale(1, 1)>>, <<Scale(5, 4), Scale(3, 2)>>},
     chars |-> { {Extent(Px(20), Px(40))},
                 {Extent(Px(20), Px(40)), Extent(Px(20) + 1, Px(40))} },
     probes |-> {ProbeSimple},
     points |-> {65},
     styles |-> {VTE_DRAW_NORMAL},
     columns |-> {1},
     requests |-> { <<Request(65, 0, 0, 1, FALSE, FALSE)>> },
     shapers |-> { [c \in ShapedPoints |-> "simple"] },
     rects |-> { [x |-> 0, y |-> 0, width |-> 25, height |-> 60] },
     undercurls |-> { [x |-> 0, y |-> 50, line_width |-> 1, count |-> 1],
                      [x |-> 25, y |-> 50, line_width |-> 2, count |-> 2] }]

SpecCanvas ==
    Init /\ [][NextFonts(CanvasInputs) \/ NextText(CanvasInputs) \/ NextPaint(CanvasInputs)]_vars

\* ------------------------------------------------ vte::grid::coords, span

\* coords(row, column): a std::pair of row_t and column_t
coords(r, c) == [row |-> r, column |-> c]

\* operator < of std::pair: by first, then by second
coords_lt(x, y) ==
    \/ x.row < y.row
    \/ (~(y.row < x.row) /\ x.column < y.column)

\* operator <= and operator >= of std::pair, both defined from operator <
coords_le(x, y) == ~coords_lt(y, x)
coords_ge(x, y) == ~coords_lt(x, y)

\* span(s, e), and span() whose coords are value-initialised
span(s, e) == [m_start |-> s, m_end |-> e]
span_default == span(coords(0, 0), coords(0, 0))

\* span::clear
span_clear(sp) == span(coords(0 - 1, 0 - 1), coords(0 - 1, 0 - 1))

\* span::empty
span_empty(sp) == coords_ge(sp.m_start, sp.m_end)

\* span::contains taken with an inclusive end
span_contains_to_end(sp, p) == coords_le(sp.m_start, p) /\ coords_le(p, sp.m_end)

\* span::contains
span_contains(sp, p) == coords_le(sp.m_start, p) /\ coords_lt(p, sp.m_end)

\* the rows and columns of the coordinates tried: those of a cleared span,
\* the first and the second of a grid
GridRows == {0 - 1, 0, 1}
GridColumns == {0 - 1, 0, 1}
GridCoords == { coords(r, c) : r \in GridRows, c \in GridColumns }

\* a span as one of its constructors leaves it
InitSpans ==
    /\ font_info_for_context = {}
    /\ infos = << >>
    /\ next_info = 1
    /\ sources = << >>
    /\ draws = [d \in Draws |-> NoDraw]
    /\ pc = "span"
    /\ cur \in {span_default} \cup { span(s, e) : s \in GridCoords, e \in GridCoords }
    /\ ret = NULL
    /\ freed = {}
    /\ out = NoOut

\* a member function of the span: what it leaves in the span and returns
SpanCall(op, args, after, result) ==
    /\ pc = "span"
    /\ cur' = after
    /\ out' = [NoOut EXCEPT !.op = op, !.args = args, !.ret = result]
    /\ UNCHANGED <<font_info_for_context, infos, next_info, sources, draws, pc, ret, freed>>

SpanSet(s, e) == SpanCall("set", <<s, e>>, span(s, e), << >>)
SpanSetStart(s) == SpanCall("set_start", <<s>>, [cur EXCEPT !.m_start = s], << >>)
SpanSetEnd(e) == SpanCall("set_end", <<e>>, [cur EXCEPT !.m_end = e], << >>)
SpanClear == SpanCall("clear", << >>, span_clear(cur), << >>)
SpanEmpty == SpanCall("empty", << >>, cur, <<span_empty(cur)>>)
SpanContains(p) == SpanCall("contains", <<p>>, cur, <<span_contains(cur, p)>>)

NextSpans ==
    \/ \E s \in GridCoords, e \in GridCoords : SpanSet(s, e)
    \/ \E s \in GridCoords : SpanSetStart(s)
    \/ \E e \in GridCoords : SpanSetEnd(e)
    \/ SpanClear
    \/ SpanEmpty
    \/ \E p \in GridCoords : SpanContains(p)

SpecSpans == InitSpans /\ [][NextSpans]_vars

\* ------------------------------------------------------ vte::util::smart_fd

\* int m_fd{-1}: no descriptor
NoFd == 0 - 1

\* the smart_fd objects of a caller, and the descriptors the kernel gives out
FdObjects == {1, 2}
Fds == {3, 4}

\* a smart_fd that is not constructed, and the default-constructed one
NoSmartFd == [live |-> FALSE, m_fd |-> NoFd]
smart_fd_default == [live |-> TRUE, m_fd |-> NoFd]

\* explicit smart_fd(int fd)
smart_fd_of(fd) == [live |-> TRUE, m_fd |-> fd]

\* close(2) under restore_errno: an open descriptor is closed and 0 returned,
\* for any other -1 is returned (EBADF) and errno is put back; st.calls lists
\* the calls of the running member function
close(st, fd) ==
    IF fd \in st.open
    THEN [st EXCEPT !.open = @ \ {fd},
                    !.calls = Append(@, [call |-> "close", fd |-> fd, ret |-> 0])]
    ELSE [st EXCEPT !.calls = Append(@, [call |-> "close", fd |-> fd, ret |-> 0 - 1])]

\* if (m_fd != -1) { restore_errno errsv; close(m_fd); }
close_held(st, o) ==
    IF st.objs[o].m_fd # NoFd THEN close(st, st.objs[o].m_fd) ELSE st

\* ~smart_fd
smart_fd_destroy(st, o) ==
    [close_held(st, o) EXCEPT !.objs[o] = NoSmartFd]

\* operator = (int rhs)
smart_fd_assign_int(st, o, rhs) ==
    [close_held(st, o) EXCEPT !.objs[o].m_fd = rhs]

\* operator = (smart_fd& rhs) without the test of &rhs != this
smart_fd_assign_unguarded(st, o, rhs) ==
    LET closed == close_held(st, o)
    IN  [closed EXCEPT !.objs = [[@ EXCEPT ![o].m_fd = st.objs[rhs].m_fd]
                                    EXCEPT ![rhs].m_fd = NoFd]]

\* operator = (smart_fd& rhs)
smart_fd_assign(st, o, rhs) ==
    IF rhs # o
    THEN LET closed == close_held(st, o)
         IN  [closed EXCEPT !.objs = [[@ EXCEPT ![o].m_fd = st.objs[rhs].m_fd]
                                         EXCEPT ![rhs].m_fd = NoFd]]
    ELSE st

\* steal: the object after it; the descriptor returned is the one held before
smart_fd_steal(st, o) == [st EXCEPT !.objs[o].m_fd = NoFd]

\* the caller hands over a descriptor it has open, or -1
Handed(st, fd) ==
    IF fd = NoFd THEN st ELSE [st EXCEPT !.open = @ \cup {fd}]

\* a caller that has constructed no smart_fd and has no descriptor open
InitFds ==
    /\ font_info_for_context = {}
    /\ infos = << >>
    /\ next_info = 1
    /\ sources = << >>
    /\ draws = [d \in Draws |-> NoDraw]
    /\ pc = "fd"
    /\ cur = [objs |-> [o \in FdObjects |-> NoSmartFd], open |-> {}, calls |-> << >>]
    /\ ret = NULL
    /\ freed = {}
    /\ out = NoOut

\* a member function of smart_fd has run: what it left and what it called
FdCall(op, args, st, result) ==
    /\ cur' = [st EXCEPT !.calls = << >>]
    /\ out' = [NoOut EXCEPT !.op = op, !.args = args, !.ret = result, !.calls = st.calls]
    /\ UNCHANGED <<font_info_for_context, infos, next_info, sources, draws, ret, freed>>

FdConstruct(o) ==
    /\ pc = "fd" /\ ~cur.objs[o].live
    /\ pc' = pc
    /\ FdCall("smart_fd", <<o>>, [cur EXCEPT !.objs[o] = smart_fd_default], << >>)

FdConstructOf(o, fd) ==
    /\ pc = "fd" /\ ~cur.objs[o].live
    /\ pc' = pc
    /\ FdCall("smart_fd_of", <<o, fd>>, [Handed(cur, fd) EXCEPT !.objs[o] = smart_fd_of(fd)], << >>)

FdDestroy(o) ==
    /\ pc = "fd" /\ cur.objs[o].live
    /\ pc' = pc
    /\ FdCall("destroy", <<o>>, smart_fd_destroy(cur, o), << >>)

FdAssignInt(o, rhs) ==
    /\ pc = "fd" /\ cur.objs[o].live
    /\ pc' = pc
    /\ FdCall("assign_int", <<o, rhs>>, smart_fd_assign_int(Handed(cur, rhs), o, rhs), << >>)

FdAssign(o, rhs) ==
    /\ pc = "fd" /\ cur.objs[o].live /\ cur.objs[rhs].live
    /\ pc' = pc
    /\ FdCall("assign", <<o, rhs>>, smart_fd_assign(cur, o, rhs), << >>)

\* operator int
FdInt(o) ==
    /\ pc = "fd" /\ cur.objs[o].live
    /\ pc' = pc
    /\ FdCall("int", <<o>>, cur, <<cur.objs[o].m_fd>>)

\* operator int*: assert(m_fd == -1), and the caller stores a descriptor
\* through the pointer
FdIntPtr(o, fd) ==
    /\ pc = "fd" /\ cur.objs[o].live
    /\ IF cur.objs[o].m_fd = NoFd
       THEN /\ pc' = pc
            /\ FdCall("int_ptr", <<o, fd>>, [Handed(cur, fd) EXCEPT !.objs[o].m_fd = fd], << >>)
       ELSE /\ pc' = "aborted"
            /\ FdCall("int_ptr", <<o, fd>>, cur, << >>)

FdSteal(o) ==
    /\ pc = "fd" /\ cur.objs[o].live
    /\ pc' = pc
    /\ FdCall("steal", <<o>>, smart_fd_steal(cur, o), <<cur.objs[o].m_fd>>)

NextFds ==
    \/ \E o \in FdObjects : FdConstruct(o)
    \/ \E o \in FdObjects, fd \in Fds \cup {NoFd} : FdConstructOf(o, fd)
    \/ \E o \in FdObjects : FdDestroy(o)
    \/ \E o \in FdObjects, rhs \in Fds \cup {NoFd} : FdAssignInt(o, rhs)
    \/ \E o \in FdObjects, rhs \in FdObjects : FdAssign(o, rhs)
    \/ \E o \in FdObjects : FdInt(o)
    \/ \E o \in FdObjects, fd \in Fds \cup {NoFd} : FdIntPtr(o, fd)
    \/ \E o \in FdObjects : FdSteal(o)

SpecFds == InitFds /\ [][NextFds]_vars

\* ----------------------------------------------------------------- claims

\* the five fields a font_info is keyed by
Fingerprint(context) ==
    <<context.resolution, context.desc, context.font_options, context.language,
      context.fontconfig_timestamp>>

\* the context the running _vte_draw_set_text_font asks a font_info for next
CreateContext == widget_context(cur.widget, StyleDesc(cur.fontdesc, cur.style))

\* the registered font_info structs with the fingerprint of a context
Registered(context) ==
    { i \in font_info_for_context :
        Fingerprint(infos[i].context) = Fingerprint(context) }

\* the font_info structs some terminal has in a slot
Held == { draws[d].fonts[s] : d \in {e \in Draws : draws[e].live}, s \in Styles }

C1_OnePerFingerprint ==
    \A i, j \in DOMAIN infos :
        Fingerprint(infos[i].context) = Fingerprint(infos[j].context) => i = j

C1_AcquireHit ==
    pc = "set_create" =>
        \A i \in Registered(CreateContext) :
            /\ ret' = i
            /\ infos'[i].ref_count = infos[i].ref_count + 1
            /\ DOMAIN infos' = DOMAIN infos
            /\ font_info_for_context' = font_info_for_context
            /\ next_info' = next_info

\* C1: there is never more than one font_info per fingerprint, and looking up
\* a fingerprint that is registered returns the registered font_info with its
\* ref_count one higher, allocating and registering nothing.
C1_AtMostOneCache == [](C1_OnePerFingerprint) /\ [][C1_AcquireHit]_vars

\* a lookup has just returned a font_info that another terminal holds too
C1_Witness ==
    /\ pc = "set_create"
    /\ ret \in DOMAIN infos
    /\ infos[ret].ref_count >= 2
    /\ \E d \in Draws \ {cur.draw} : draws[d].live /\ draws[d].fonts[VTE_DRAW_NORMAL] = ret

C2_ReacquireStep ==
    pc = "set_create" =>
        \A i \in Registered(CreateContext) :
            (infos[i].ref_count = 0 /\ infos[i].destroy_timeout # 0) =>
                /\ ret' = i
                /\ infos' = [infos EXCEPT ![i].ref_count = 1, ![i].destroy_timeout = 0]
                /\ next_info' = next_info
                /\ infos[i].destroy_timeout \notin DOMAIN sources'
                /\ \A s \in DOMAIN sources' : sources'[s] # i

\* C2: looking up the fingerprint of a font_info that was released to
\* ref_count 0 and whose timeout has not fired returns that font_info, with
\* nothing of it changed but ref_count, now 1, and destroy_timeout, now 0,
\* its timeout removed, and nothing allocated.
C2_Reacquire == [][C2_ReacquireStep]_vars

\* the first lookup of a _vte_draw_set_text_font returned a font_info that
\* it did not allocate and that had no reference left
C2_Witness ==
    /\ pc = "set_create"
    /\ cur.style = VTE_DRAW_BOLD
    /\ ret \in DOMAIN infos
    /\ ret # next_info - 1
    /\ infos[ret].ref_count = 1
    /\ infos[ret].destroy_timeout = 0

C3_TimeoutStep ==
    \A s \in DOMAIN sources :
        (pc = "idle" /\ s \notin DOMAIN sources') =>
            /\ sources[s] \notin DOMAIN infos'
            /\ sources[s] \notin font_info_for_context'
            /\ \A j \in font_info_for_context' :
                  Fingerprint(infos'[j].context) # Fingerprint(infos[sources[s]].context)

C3_MissStep ==
    (pc = "set_create" /\ Registered(CreateContext) = {}) =>
        /\ ret' = next_info
        /\ next_info' = next_info + 1
        /\ ret' \notin DOMAIN infos
        /\ ret' \in font_info_for_context'
        /\ infos'[ret'].ref_count = 1
        /\ infos'[ret'].destroy_timeout = 0
        /\ Fingerprint(infos'[ret'].context) = Fingerprint(CreateContext)

\* C3: the timeout's callback frees the font_info and takes its entry out of
\* the table, and a lookup that finds no entry returns a font_info allocated
\* by that lookup, registered, with ref_count 1; no font_info is handed out
\* again once it was freed.
C3_EvictThenConstruct ==
    /\ [](DOMAIN infos \subseteq 1 .. (next_info - 1))
    /\ [][C3_TimeoutStep /\ C3_MissStep]_vars

\* a lookup has just allocated a font_info for a fingerprint whose earlier
\* font_info was freed by its timeout
C3_Witness ==
    /\ pc = "set_create"
    /\ ret = next_info - 1
    /\ ret \in DOMAIN infos
    /\ infos[ret].ref_count = 1
    /\ \E c \in freed : Fingerprint(c) = Fingerprint(infos[ret].context)

C4_TimeoutOnlyAtZero ==
    \A s \in DOMAIN sources :
        /\ sources[s] \in DOMAIN infos
        /\ infos[sources[s]].ref_count = 0
        /\ infos[sources[s]].destroy_timeout = s

C4_DestroyOnlyByTimeout ==
    \A i \in DOMAIN infos :
        i \notin DOMAIN infos' =>
            /\ pc = "idle"
            /\ infos[i].ref_count = 0
            /\ infos[i].destroy_timeout \in DOMAIN sources
            /\ infos[i].destroy_timeout \notin DOMAIN sources'

C4_ReleaseToZero ==
    \A i \in DOMAIN infos :
        (infos[i].ref_count > 0 /\ i \in DOMAIN infos' /\ infos'[i].ref_count = 0) =>
            /\ font_info_for_context' = font_info_for_context
            /\ i \in font_info_for_context'
            /\ \E s \in (DOMAIN sources') \ (DOMAIN sources) :
                  /\ sources'[s] = i
                  /\ infos' = [infos EXCEPT ![i].ref_count = 0, ![i].destroy_timeout = s]

\* C4: a font_info leaves the heap only in a step of the main loop that runs
\* its timeout, an armed timeout always belongs to a font_info with ref_count
\* 0, and the release that takes a ref_count to 0 arms a timeout and changes
\* nothing else of the font_info or of the table.
C4_DestroyedOnlyByTimer ==
    /\ [](C4_TimeoutOnlyAtZero)
    /\ [][C4_DestroyOnlyByTimeout /\ C4_ReleaseToZero]_vars

\* a font_info waits for its timeout, registered, after another one was freed
C4_Witness ==
    /\ freed # {}
    /\ \E i \in font_info_for_context :
          /\ infos[i].ref_count = 0
          /\ infos[i].destroy_timeout \in DOMAIN sources
    /\ \E i \in font_info_for_context : infos[i].ref_count > 0

\* C5: when no handler runs, a font_info that no terminal has in a slot has
\* ref_count 0 and its timeout armed.
C5_AllReleased ==
    pc = "idle" =>
        \A i \in (DOMAIN infos) \ Held :
            infos[i].ref_count = 0 /\ infos[i].destroy_timeout # 0

\* the font_info the running handler is about to release
C6_ReleaseTargets ==
    LET fonts == draws[cur.draw].fonts
    IN  IF pc \in {"free_fonts", "set_free_fonts"}
        THEN IF fonts[cur.style] # NULL /\
                (cur.style = 0 \/ fonts[cur.style] # fonts[cur.style - 1])
             THEN {fonts[cur.style]}
             ELSE {}
        ELSE IF pc = "set_reject"
        THEN {fonts[cur.style], fonts[cur.style + VTE_DRAW_BOLD]}
        ELSE {}

\* C6: when no handler runs, every slot of every terminal is NULL or holds a
\* font_info that is on the heap, registered, with ref_count >= 1; and a
\* handler releases, and reads, only such font_info structs.
C6_SlotsStayLive ==
    /\ pc = "idle" =>
          \A i \in Held \ {NULL} :
              i \in DOMAIN infos /\ i \in font_info_for_context /\ infos[i].ref_count >= 1
    /\ \A i \in C6_ReleaseTargets :
          i \in DOMAIN infos /\ i \in font_info_for_context /\ infos[i].ref_count >= 1

\* two terminals have their fonts, one with its bold slot aliased, after a
\* timeout has freed a font_info
C6_Witness ==
    /\ pc = "idle"
    /\ freed # {}
    /\ \A d \in {1, 2} : draws[d].live /\ draws[d].fonts[VTE_DRAW_NORMAL] # NULL
    /\ draws[1].fonts[VTE_DRAW_BOLD] = draws[1].fonts[VTE_DRAW_NORMAL]

C7_RejectStep ==
    pc = "set_reject" =>
        LET normal == draws[cur.draw].fonts[cur.style]
            bold == draws[cur.draw].fonts[cur.style + VTE_DRAW_BOLD]
            nw == infos[normal].width
            bw == infos[bold].width
        IN  /\ bw * 100 = nw * 115 =>
                /\ draws' = [draws EXCEPT ![cur.draw].fonts[cur.style + VTE_DRAW_BOLD] = normal]
                /\ infos'[bold].ref_count = infos[bold].ref_count - 1
                /\ infos'[normal] = infos[normal]
            /\ abs(bw - nw) * 100 <= nw * 5 =>
                /\ draws' = draws
                /\ infos' = infos
                /\ sources' = sources

\* C7: the bold test is made for the pair (normal, bold) and for the pair
\* (italic, bold italic): a bold font_info 15% wider than its normal one is
\* released once and its slot set to the normal font_info, whose ref_count
\* stays; with a width within 5%, no slot changes and nothing is released.
C7_BoldRejection == [][C7_RejectStep]_vars

\* the bold font was rejected and the bold italic one kept
C7_Witness ==
    /\ pc = "set_spacing"
    /\ draws[cur.draw].fonts[VTE_DRAW_BOLD] = draws[cur.draw].fonts[VTE_DRAW_NORMAL]
    /\ draws[cur.draw].fonts[3] # draws[cur.draw].fonts[VTE_DRAW_ITALIC]
    /\ infos[draws[cur.draw].fonts[3]].width * 100 = infos[draws[cur.draw].fonts[VTE_DRAW_ITALIC]].width * 105

\* the entry of c in a font_info is classified
Classified(info, c) == font_info_find_unistr_info(info, c).coverage # COVERAGE_UNKNOWN

\* the font_info the handler that has just run was asked to use
OutFont == draws[out'.args.draw].fonts[out'.args.style]

\* the call that draws the one character of an entry
ShowsEntry(call, uinfo) ==
    CASE uinfo.coverage = COVERAGE_USE_CAIRO_GLYPH ->
            /\ call.call = "show_glyphs"
            /\ call.scaled_font = uinfo.ufi.scaled_font
            /\ Len(call.glyphs) = 1
            /\ call.glyphs[1].index = uinfo.ufi.glyph_index
      [] uinfo.coverage = COVERAGE_USE_PANGO_GLYPH_STRING ->
            /\ call.call = "show_glyph_string"
            /\ call.font = uinfo.ufi.font
            /\ call.glyph_string = uinfo.ufi.glyph_string
      [] OTHER ->
            /\ call.call = "show_layout_line"
            /\ call.line = uinfo.ufi.line

C8_SecondCall ==
    (/\ pc = "idle"
     /\ out'.op \in {"has_char", "get_char_edges"}
     /\ out'.op = "has_char" \/ ~_vte_draw_unichar_is_local_graphic(out'.args.c)
     /\ OutFont # NULL
     /\ Classified(infos[OutFont], out'.args.c)) =>
            LET uinfo == font_info_find_unistr_info(infos[OutFont], out'.args.c)
            IN  /\ infos' = infos
                /\ out'.shaper = << >>
                /\ (out'.op = "has_char") => (out'.ret = <<~uinfo.has_unknown_chars>>)
                /\ (out'.op = "get_char_edges") =>
                       (out'.ret[2] - out'.ret[1] = uinfo.width)

C8_SecondDraw ==
    (/\ pc = "idle" /\ pc' = "idle"
     /\ out'.op = "text"
     /\ Len(out'.args.requests) = 1
     /\ ~_vte_draw_unichar_is_local_graphic(out'.args.requests[1].c)
     /\ OutFont # NULL
     /\ Classified(infos[OutFont], out'.args.requests[1].c)) =>
        LET c == out'.args.requests[1].c
        IN      /\ infos' = infos
                /\ out'.shaper = << >>
                /\ ShowsEntry(out'.calls[Len(out'.calls)],
                              font_info_find_unistr_info(infos[OutFont], c))

\* C8: when the entry of a character is classified, a handler that calls
\* font_info_get_unistr_info for it again (_vte_draw_has_char, and
\* _vte_draw_get_char_edges and _vte_draw_text for a character they do
\* not draw themselves) changes no font_info, asks the shaper nothing, and answers from the entry
\* as it was: its has_unknown_chars, its width, and its kind and payload in
\* the drawing call.
C8_ClassifyIdempotent == [][C8_SecondCall /\ C8_SecondDraw]_vars

\* U+03BB, classified by an earlier call, was asked for again
C8_Witness ==
    /\ pc = "idle"
    /\ out.op = "has_char"
    /\ out.args.c = 955
    /\ out.shaper = << >>
    /\ draws[1].fonts[VTE_DRAW_BOLD] # NULL
    /\ Classified(infos[draws[1].fonts[VTE_DRAW_BOLD]], 955)

C9_EntriesStay ==
    \A i \in (DOMAIN infos) \cap (DOMAIN infos') :
        /\ DOMAIN infos[i].other_unistr_info \subseteq DOMAIN infos'[i].other_unistr_info
        /\ \A c \in (DOMAIN infos[i].ascii_unistr_info) \cup (DOMAIN infos[i].other_unistr_info) :
              Classified(infos[i], c) =>
                  font_info_find_unistr_info(infos'[i], c) = font_info_find_unistr_info(infos[i], c)

\* cluster k of the sample text is one that font_info_cache_ascii caches
C9_Cacheable(layout, k) ==
    LET cluster == layout.runs[1].clusters[k]
        glyph == layout.runs[1].glyphs[cluster.start_glyph + 1]
    IN  /\ cluster.start_char + 1 = cluster.end_char
        /\ cluster.start_index + 1 = cluster.end_index
        /\ cluster.start_glyph + 1 = cluster.end_glyph
        /\ glyph.glyph <= 65535 /\ glyph.x_offset = 0 /\ glyph.y_offset = 0

C9_FirstClusterWins ==
    (pc = "set_create" /\ ret' \notin DOMAIN infos) =>
        LET info == infos'[ret']
            layout == info.layout
        IN  \A k \in 1 .. Len(layout.runs[1].clusters) :
                LET cluster == layout.runs[1].clusters[k]
                    c == layout.text[cluster.start_index + 1]
                IN  (/\ C9_Cacheable(layout, k)
                     /\ \A j \in 1 .. (k - 1) :
                           C9_Cacheable(layout, j) =>
                               layout.text[layout.runs[1].clusters[j].start_index + 1] # c) =>
                        info.ascii_unistr_info[c].ufi.glyph_index =
                            layout.runs[1].glyphs[cluster.start_glyph + 1].glyph

\* C9: no step changes or removes a classified entry of a font_info that is
\* on the heap before and after the step, and of the clusters of the sample
\* text that font_info_cache_ascii can cache, the first one of a character
\* is the one its entry holds.
C9_ClassificationsStable == [][C9_EntriesStay /\ C9_FirstClusterWins]_vars

\* "A" has just been classified in a font_info that holds U+03BB classified
C9_Witness ==
    /\ pc = "idle"
    /\ out.op = "has_char"
    /\ out.args.c = 65
    /\ out.shaper # << >>
    /\ Classified(infos[draws[1].fonts[VTE_DRAW_BOLD]], 955)
    /\ Classified(infos[draws[1].fonts[VTE_DRAW_BOLD]], 32)

\* one run, of one font, with one glyph of at most 16 bits at the origin
C10_OneGlyphShape(layout) ==
    /\ Len(layout.runs) = 1
    /\ layout.runs[1].font # NULL
    /\ Len(layout.runs[1].glyphs) = 1
    /\ layout.runs[1].glyphs[1].x_offset = 0
    /\ layout.runs[1].glyphs[1].y_offset = 0
    /\ layout.runs[1].glyphs[1].glyph <= 65535

\* the entry a handler has just classified from the layout it had shaped
C10_Entry(layout) == font_info_find_unistr_info(infos'[OutFont], layout.text[1])

\* C10 as claimed: a character is classified COVERAGE_USE_CAIRO_GLYPH exactly
\* when its layout is one run of one font with one glyph of at most 16 bits
\* at the origin.
C10_AsClaimed ==
    [][\A k \in DOMAIN out'.shaper :
          (C10_Entry(out'.shaper[k]).coverage = COVERAGE_USE_CAIRO_GLYPH)
              <=> C10_OneGlyphShape(out'.shaper[k])]_vars

\* C10, amended: a character is classified COVERAGE_USE_CAIRO_GLYPH exactly
\* when its layout is one run of one font with one glyph of at most 16 bits
\* at the origin and the font has a cairo scaled font; the entry then holds
\* that scaled font and that glyph.
C10_SingleGlyph ==
    [][\A k \in DOMAIN out'.shaper :
          LET layout == out'.shaper[k]
              uinfo == C10_Entry(layout)
          IN  IF C10_OneGlyphShape(layout) /\ layout.runs[1].scaled_font # NULL
              THEN /\ uinfo.coverage = COVERAGE_USE_CAIRO_GLYPH
                   /\ uinfo.ufi = [scaled_font |-> layout.runs[1].scaled_font,
                                   glyph_index |-> layout.runs[1].glyphs[1].glyph]
              ELSE uinfo.coverage \in {COVERAGE_USE_PANGO_GLYPH_STRING,
                                       COVERAGE_USE_PANGO_LAYOUT_LINE}]_vars

\* the glyph 0xFFFF was classified COVERAGE_USE_CAIRO_GLYPH
C10_Witness ==
    /\ pc = "idle"
    /\ out.op = "has_char"
    /\ Len(out.shaper) = 1
    /\ out.shaper[1].runs[1].glyphs[1].glyph = 65535
    /\ font_info_find_unistr_info(infos[draws[1].fonts[VTE_DRAW_BOLD]], 955).coverage
           = COVERAGE_USE_CAIRO_GLYPH

C12_Entries(info) ==
    { font_info_find_unistr_info(info, c) :
        c \in (DOMAIN info.ascii_unistr_info) \cup (DOMAIN info.other_unistr_info) }

C12_NeverSingleGlyph ==
    \A i \in DOMAIN infos :
        \A uinfo \in C12_Entries(infos[i]) :
            uinfo.has_unknown_chars => uinfo.coverage # COVERAGE_USE_CAIRO_GLYPH

C12_ShapedStep ==
    \A k \in DOMAIN out'.shaper :
        C10_Entry(out'.shaper[k]).has_unknown_chars
            <=> (\E r \in DOMAIN out'.shaper[k].runs :
                    \E g \in DOMAIN out'.shaper[k].runs[r].glyphs :
                        out'.shaper[k].runs[r].glyphs[g].glyph >= UnknownGlyph(0))

C12_PrecacheStep ==
    (pc = "set_create" /\ ret' \notin DOMAIN infos) =>
        \A c \in AsciiPoints :
            Classified(infos'[ret'], c) =>
                /\ ~infos'[ret'].ascii_unistr_info[c].has_unknown_chars
                /\ infos'[ret'].layout.unknown_glyphs = 0

\* C12: the entry a handler classifies has has_unknown_chars set exactly when
\* the line shaped for the character holds an unknown glyph; the entries
\* font_info_cache_ascii fills have it clear and come from a sample text
\* shaped without unknown glyphs; and no entry with has_unknown_chars set is
\* ever COVERAGE_USE_CAIRO_GLYPH.
C12_UnknownGlyphs == [](C12_NeverSingleGlyph) /\ [][C12_ShapedStep /\ C12_PrecacheStep]_vars

\* "(", which the sample text had no glyph for, was asked for and shaped
\* with an unknown glyph: its entry is a glyph string with has_unknown_chars
C12_Witness ==
    /\ pc = "idle"
    /\ out.op = "has_char"
    /\ out.ret = <<FALSE>>
    /\ Len(out.shaper) = 1
    /\ out.shaper[1].unknown_glyphs = 1
    /\ LET uinfo == font_info_find_unistr_info(infos[draws[1].fonts[VTE_DRAW_BOLD]], 40)
       IN  uinfo.has_unknown_chars /\ uinfo.coverage = COVERAGE_USE_PANGO_GLYPH_STRING
    /\ \E i \in DOMAIN infos :
          infos[i].layout.text = ProbeText /\ Classified(infos[i], 40)

\* the character a request draws
DrawnChar(request) ==
    IF request.mirror
    THEN vte_bidi_get_mirror_char(request.c, request.box_mirror)
    ELSE request.c

\* the entry, after the call, of the character a request of the call draws
EntryOf(request) == font_info_find_unistr_info(infos'[OutFont], DrawnChar(request))

\* a _vte_draw_text that has just run its loop and returned
TextDrawn ==
    /\ pc = "idle" /\ pc' = "idle"
    /\ out'.op = "text"
    /\ OutFont # NULL

\* the places of the cairo_show_glyphs calls among the calls made
GlyphCalls(calls) == { k \in DOMAIN calls : calls[k].call = "show_glyphs" }

\* C13: a _vte_draw_text of n requests whose characters are all
\* COVERAGE_USE_CAIRO_GLYPH with one scaled font calls cairo_show_glyphs
\* ceil(n / MAX_RUN_LENGTH) times, and draws nothing in any other way.
C13_BatchCount ==
    [][(/\ TextDrawn
        /\ \A i \in DOMAIN out'.args.requests :
              /\ EntryOf(out'.args.requests[i]).coverage = COVERAGE_USE_CAIRO_GLYPH
              /\ EntryOf(out'.args.requests[i]).ufi.scaled_font
                    = EntryOf(out'.args.requests[1]).ufi.scaled_font) =>
            /\ Cardinality(GlyphCalls(out'.calls))
                  = (Len(out'.args.requests) + MAX_RUN_LENGTH - 1) \div MAX_RUN_LENGTH
            /\ \A k \in DOMAIN out'.calls :
                  out'.calls[k].call \in {"set_source_rgba", "set_operator", "show_glyphs"}]_vars

\* 150 "A" were drawn with two calls of cairo_show_glyphs
C13_Witness ==
    /\ pc = "idle"
    /\ out.op = "text"
    /\ Len(out.args.requests) = 150
    /\ \A i \in DOMAIN out.args.requests : out.args.requests[i].c = 65
    /\ Cardinality(GlyphCalls(out.calls)) = 2

\* the number of glyphs the cairo_show_glyphs calls of a call sequence paint
RECURSIVE GlyphsPainted(_)
GlyphsPainted(calls) ==
    IF calls = << >> THEN 0
    ELSE (IF Head(calls).call = "show_glyphs" THEN Len(Head(calls).glyphs) ELSE 0)
         + GlyphsPainted(Tail(calls))

\* C14: a _vte_draw_text with a cairo context never fails; none of its
\* cairo_show_glyphs calls has more than MAX_RUN_LENGTH glyphs or none; a
\* call followed by one with the same scaled font has MAX_RUN_LENGTH glyphs;
\* and the calls together paint as many glyphs as there are requests whose
\* character is COVERAGE_USE_CAIRO_GLYPH.
C14_BatchBound ==
    [][(/\ pc = "idle"
        /\ out'.op = "text"
        /\ OutFont # NULL
        /\ draws[out'.args.draw].cr # NULL) =>
            /\ pc' = "idle"
            /\ \A k \in GlyphCalls(out'.calls) :
                  /\ Len(out'.calls[k].glyphs) \in 1 .. MAX_RUN_LENGTH
                  /\ \A m \in GlyphCalls(out'.calls) :
                        (/\ m > k
                         /\ \A j \in GlyphCalls(out'.calls) : ~(k < j /\ j < m)
                         /\ out'.calls[m].scaled_font = out'.calls[k].scaled_font) =>
                            Len(out'.calls[k].glyphs) = MAX_RUN_LENGTH
            /\ GlyphsPainted(out'.calls)
                  = Cardinality({ i \in DOMAIN out'.args.requests :
                                    EntryOf(out'.args.requests[i]).coverage
                                        = COVERAGE_USE_CAIRO_GLYPH })]_vars

\* 101 "A" were drawn: a call with MAX_RUN_LENGTH glyphs, then one with the last
C14_Witness ==
    /\ pc = "idle"
    /\ out.op = "text"
    /\ Len(out.args.requests) = 101
    /\ \E k, m \in GlyphCalls(out.calls) :
          /\ k < m
          /\ Len(out.calls[k].glyphs) = MAX_RUN_LENGTH
          /\ Len(out.calls[m].glyphs) = 1
          /\ out.calls[m].scaled_font = out.calls[k].scaled_font

\* the left edge _vte_draw_get_char_edges gives a character of width w
LeftEdge(w, normal_width, fits_width, columns, char_spacing) ==
    IF w <= normal_width
    THEN char_spacing.left + (IF columns = 2 THEN char_spacing.right ELSE 0)
    ELSE IF w <= fits_width
    THEN (fits_width - w) \div 2
    ELSE 0

\* the glyphs the COVERAGE_USE_CAIRO_GLYPH requests of the call that has just
\* run ask for, in the order of the requests: the scaled font and the glyph
\* of the entry, and where the request wants them
GlyphsAsked ==
    Local({ [i \in DOMAIN asked |->
                [scaled_font |-> font_info_find_unistr_info(font, DrawnChar(asked[i])).ufi.scaled_font,
                 index |-> font_info_find_unistr_info(font, DrawnChar(asked[i])).ufi.glyph_index,
                 x |-> asked[i].x +
                       LeftEdge(font_info_find_unistr_info(font, DrawnChar(asked[i])).width,
                                normal.width * asked[i].columns,
                                draw.cell_width * asked[i].columns,
                                asked[i].columns, draw.char_spacing),
                 y |-> asked[i].y + draw.char_spacing.top + normal.ascent]] :
            draw \in {draws[out'.args.draw]},
            font \in {infos'[OutFont]},
            normal \in {infos'[draws[out'.args.draw].fonts[VTE_DRAW_NORMAL]]},
            asked \in {SelectSeq(out'.args.requests,
                                 LAMBDA r : /\ ~_vte_draw_unichar_is_local_graphic(DrawnChar(r))
                                            /\ EntryOf(r).coverage = COVERAGE_USE_CAIRO_GLYPH)} })

\* the glyphs the cairo_show_glyphs calls of a call sequence paint, in the
\* order painted, each with the scaled font set for its call
RECURSIVE GlyphsShown(_)
GlyphsShown(calls) ==
    IF calls = << >> THEN << >>
    ELSE (IF Head(calls).call = "show_glyphs"
          THEN [i \in DOMAIN Head(calls).glyphs |->
                   [scaled_font |-> Head(calls).scaled_font,
                    index |-> Head(calls).glyphs[i].index,
                    x |-> Head(calls).glyphs[i].x, y |-> Head(calls).glyphs[i].y]]
          ELSE << >>)
         \o GlyphsShown(Tail(calls))

\* C15: when _vte_draw_text returns, the glyphs its cairo_show_glyphs calls
\* have painted, each taken with the scaled font set for its call, are the
\* glyphs of its COVERAGE_USE_CAIRO_GLYPH requests, each once, in the order
\* of the requests, with the scaled font and glyph of its entry and the x
\* and y of its own request.
C15_BatchesPaintRequests == [][TextDrawn => GlyphsShown(out'.calls) = GlyphsAsked]_vars

\* a row of "A", U+03BB in another font, U+2500 and a space was drawn with
\* five calls of cairo_show_glyphs
C15_Witness ==
    /\ pc = "idle"
    /\ out.op = "text"
    /\ Len(out.args.requests) = 8
    /\ Cardinality(GlyphCalls(out.calls)) = 5
    /\ \E k \in GlyphCalls(out.calls) : Len(out.calls[k].glyphs) = 2 /\ out.calls[k].scaled_font = 2

\* the places of the pango_cairo_show_glyph_string and
\* pango_cairo_show_layout_line calls among the calls made
LineCalls(calls) ==
    { k \in DOMAIN calls : calls[k].call \in {"show_glyph_string", "show_layout_line"} }

\* C16 as claimed: in a _vte_draw_text whose requests go from left to right,
\* every glyph painted by a cairo_show_glyphs call made before a
\* pango_cairo_show_glyph_string or pango_cairo_show_layout_line call is of a
\* request before that call's, and every glyph painted by one made after it
\* is of a request after it: the glyphs collected are shown first.
C16_AsClaimed ==
    [][TextDrawn =>
          \A k \in LineCalls(out'.calls), m \in GlyphCalls(out'.calls) :
              \A g \in DOMAIN out'.calls[m].glyphs :
                  IF m < k
                  THEN out'.calls[m].glyphs[g].x < out'.calls[k].x
                  ELSE out'.calls[m].glyphs[g].x > out'.calls[k].x]_vars

\* C16, amended: a request that is COVERAGE_USE_PANGO_GLYPH_STRING or
\* COVERAGE_USE_PANGO_LAYOUT_LINE is drawn at once and leaves the glyphs
\* collected as they are.  In a _vte_draw_text whose requests go from left
\* to right, a cairo_show_glyphs call is made before such a call exactly
\* when the next cairo_show_glyphs call starts with a glyph of a request
\* before that call's; the calls of such requests are made in request order;
\* and a cairo_show_glyphs call followed by one with the same scaled font
\* has MAX_RUN_LENGTH glyphs, so a run of glyphs spans such requests.
C16_LinesDrawnAtOnce ==
    [][TextDrawn =>
          /\ \A k \in LineCalls(out'.calls), m \in GlyphCalls(out'.calls) :
                (m < k) <=> (\E n \in GlyphCalls(out'.calls) :
                                /\ n > m
                                /\ out'.calls[n].glyphs[1].x < out'.calls[k].x)
          /\ \A k, j \in LineCalls(out'.calls) :
                (k < j) => (out'.calls[k].x < out'.calls[j].x)
          /\ Cardinality(LineCalls(out'.calls))
                = Cardinality({ i \in DOMAIN out'.args.requests :
                                  /\ ~_vte_draw_unichar_is_local_graphic(
                                          DrawnChar(out'.args.requests[i]))
                                  /\ EntryOf(out'.args.requests[i]).coverage
                                        # COVERAGE_USE_CAIRO_GLYPH })
          /\ \A m, n \in GlyphCalls(out'.calls) :
                (/\ m < n
                 /\ \A j \in GlyphCalls(out'.calls) : ~(m < j /\ j < n)
                 /\ out'.calls[n].scaled_font = out'.calls[m].scaled_font) =>
                    Len(out'.calls[m].glyphs) = MAX_RUN_LENGTH]_vars

\* "A", U+03BB as a glyph string, "A" were drawn: the glyph string first,
\* then both "A" with one cairo_show_glyphs
C16_Witness ==
    /\ pc = "idle"
    /\ out.op = "text"
    /\ Len(out.args.requests) = 3
    /\ Len(out.calls) = 4
    /\ out.calls[3].call = "show_glyph_string"
    /\ out.calls[4].call = "show_glyphs"
    /\ Len(out.calls[4].glyphs) = 2

\* U+2500..U+259F, U+25E2..U+25E5 and U+1FB00..U+1FBFF
C17_LocalGraphic(c) == c \in (9472 .. 9631) \cup (9698 .. 9701) \cup (129792 .. 130047)

\* no font_info has another entry for c after the step than before it
C17_EntryUntouched(c) ==
    \A f \in DOMAIN infos :
        /\ f \in DOMAIN infos'
        /\ (c \in DOMAIN infos'[f].other_unistr_info) <=> (c \in DOMAIN infos[f].other_unistr_info)
        /\ font_info_find_unistr_info(infos'[f], c) = font_info_find_unistr_info(infos[f], c)

C17_TextStep ==
    TextDrawn =>
        /\ \A i \in DOMAIN out'.args.requests :
              LET request == out'.args.requests[i]
                  c == DrawnChar(request)
              IN  C17_LocalGraphic(c) =>
                      /\ C17_EntryUntouched(c)
                      /\ \A k \in DOMAIN out'.shaper : out'.shaper[k].text # <<c>>
                      /\ \E k \in DOMAIN out'.calls :
                            out'.calls[k] = [call |-> "draw_graphic", c |-> c,
                                             x |-> request.x, y |-> request.y,
                                             font_width |-> infos[OutFont].width,
                                             columns |-> request.columns,
                                             font_height |-> infos[OutFont].height]
        /\ (\A i \in DOMAIN out'.args.requests :
                C17_LocalGraphic(DrawnChar(out'.args.requests[i]))) =>
                    (infos' = infos /\ out'.shaper = << >>)

C17_EdgesStep ==
    (/\ pc = "idle"
     /\ out'.op = "get_char_edges"
     /\ C17_LocalGraphic(out'.args.c)) =>
        /\ infos' = infos
        /\ out'.shaper = << >>
        /\ out'.ret = <<0, draws[out'.args.draw].cell_width * out'.args.columns>>

\* C17: a request of _vte_draw_text whose character, mirrored if the request
\* says so, is in U+2500..U+259F, U+25E2..U+25E5 or U+1FB00..U+1FBFF is
\* drawn by _vte_draw_terminal_draw_graphic, and neither it nor a
\* _vte_draw_get_char_edges for such a character shapes the character or
\* creates or changes an entry for it in any font_info.
C17_GraphicsBypassCache == [][C17_TextStep /\ C17_EdgesStep]_vars

\* a mirrored corner and U+1FB00 were drawn as graphics, and the font has
\* no entry for either
C17_Witness ==
    /\ pc = "idle"
    /\ out.op = "text"
    /\ Len(out.calls) = 4
    /\ out.calls[3].call = "draw_graphic" /\ out.calls[3].c = 9488
    /\ out.calls[4].call = "draw_graphic" /\ out.calls[4].c = 129792
    /\ DOMAIN infos[draws[1].fonts[VTE_DRAW_BOLD]].other_unistr_info = {}

\* the requests of the call that are mirrored into a character that no
\* request of the call draws
C18_Mirrored ==
    { i \in DOMAIN out'.args.requests :
        /\ out'.args.requests[i].mirror
        /\ DrawnChar(out'.args.requests[i]) # out'.args.requests[i].c
        /\ \A j \in DOMAIN out'.args.requests :
              DrawnChar(out'.args.requests[j]) # out'.args.requests[i].c }

\* C18: a _vte_draw_text of a mirrored request draws and classifies the
\* mirror of its character: a local graphic if the mirror is one, else the
\* entry of the mirror in the font; and the character of the request, if no
\* request draws it, is not shaped and no font_info gets an entry for it or
\* has its entry for it changed.
C18_MirrorIsLocal ==
    [][TextDrawn =>
          \A i \in C18_Mirrored :
              LET request == out'.args.requests[i]
                  mirror == vte_bidi_get_mirror_char(request.c, request.box_mirror)
              IN  /\ C17_EntryUntouched(request.c)
                  /\ \A k \in DOMAIN out'.shaper : out'.shaper[k].text # <<request.c>>
                  /\ IF C17_LocalGraphic(mirror)
                     THEN \E k \in DOMAIN out'.calls :
                              /\ out'.calls[k].call = "draw_graphic"
                              /\ out'.calls[k].c = mirror
                              /\ out'.calls[k].x = request.x
                     ELSE /\ Classified(infos'[OutFont], mirror)
                          /\ \E k \in DOMAIN out'.calls :
                                /\ out'.calls[k].call # "draw_graphic"
                                /\ ShowsEntry(out'.calls[k],
                                              font_info_find_unistr_info(infos'[OutFont], mirror))]_vars

\* a mirrored ")" was drawn with the glyph of "(", and the font has no entry for ")"
C18_Witness ==
    /\ pc = "idle"
    /\ out.op = "text"
    /\ Len(out.args.requests) = 1
    /\ out.args.requests[1].c = 41
    /\ out.args.requests[1].mirror
    /\ Len(out.calls) = 3
    /\ out.calls[3].call = "show_glyphs"
    /\ out.calls[3].glyphs[1].index = 11
    /\ ~Classified(infos[draws[1].fonts[VTE_DRAW_BOLD]], 41)

C19_Edges ==
    (/\ pc = "idle"
     /\ out'.op = "get_char_edges"
     /\ ~C17_LocalGraphic(out'.args.c)
     /\ draws[out'.args.draw].fonts[VTE_DRAW_NORMAL] # NULL) =>
        LET draw == draws[out'.args.draw]
            columns == out'.args.columns
            w == font_info_find_unistr_info(infos'[OutFont], out'.args.c).width
            nw == infos'[draw.fonts[VTE_DRAW_NORMAL]].width * columns
            fits == draw.cell_width * columns
            left == out'.ret[1]
            right == out'.ret[2]
        IN  /\ Classified(infos'[OutFont], out'.args.c)
            /\ (w <= nw) =>
                   left = draw.char_spacing.left
                          + (IF columns = 2 THEN draw.char_spacing.right ELSE 0)
            /\ (w > nw /\ w <= fits) => (left = (fits - w) \div 2)
            /\ (w > fits) => (left = 0)
            /\ right = left + w

\* C19: _vte_draw_get_char_edges for a character that is no local graphic,
\* with w the width of its entry, nw the width of the normal font times
\* columns and fits the cell width times columns, returns as left
\* char_spacing.left (plus char_spacing.right when columns is 2) if w <= nw,
\* (fits - w) / 2 if nw < w <= fits, and 0 if w > fits; and left + w as right.
C19_CharEdges == [][C19_Edges]_vars

\* U+03BB, 22 wide with regular characters 20 wide in a cell of 25, was
\* centred: its edges are 1 and 23
C19_Witness ==
    /\ pc = "idle"
    /\ out.op = "get_char_edges"
    /\ out.args.columns = 1
    /\ out.ret = <<1, 23>>
    /\ draws[1].cell_width = 25
    /\ infos[draws[1].fonts[VTE_DRAW_NORMAL]].width = 20

\* the y of everything a call sequence paints with cairo_show_glyphs,
\* pango_cairo_show_glyph_string and pango_cairo_show_layout_line
PaintedY(calls) ==
    { calls[k].y : k \in LineCalls(calls) } \cup
    UNION { { calls[k].glyphs[g].y : g \in DOMAIN calls[k].glyphs } : k \in GlyphCalls(calls) }

\* C20: whatever the style of a _vte_draw_text, the y of what it paints for
\* a request that is no local graphic is request.y + char_spacing.top + the
\* ascent of the font in the normal slot, whatever the ascent of the font of
\* the style.
C20_NormalAscent ==
    [][TextDrawn =>
          PaintedY(out'.calls)
            = { out'.args.requests[i].y
                  + draws[out'.args.draw].char_spacing.top
                  + infos'[draws[out'.args.draw].fonts[VTE_DRAW_NORMAL]].ascent :
                i \in { j \in DOMAIN out'.args.requests :
                          ~C17_LocalGraphic(DrawnChar(out'.args.requests[j])) } }]_vars

\* a glyph, a glyph string and a layout line were drawn in a bold font whose
\* ascent is not the normal font's
C20_Witness ==
    /\ pc = "idle"
    /\ out.op = "text"
    /\ out.args.style = VTE_DRAW_BOLD
    /\ Cardinality(LineCalls(out.calls)) = 2
    /\ Cardinality(GlyphCalls(out.calls)) = 1
    /\ infos[draws[1].fonts[VTE_DRAW_BOLD]].ascent = 33
    /\ infos[draws[1].fonts[VTE_DRAW_NORMAL]].ascent = 30
    /\ PaintedY(out.calls) = { y + draws[1].char_spacing.top + 30 : y \in {7, 8, 9} }

\* the normal font of the terminal whose fonts are being set
C21_Normal == infos[draws[cur.draw].fonts[VTE_DRAW_NORMAL]]

\* the cell is the normal font's width and height times the scales, cut to
\* an integer
C21_Cell ==
    /\ draws'[cur.draw].cell_width
         = (C21_Normal.width * cur.cell_width_scale.num) \div cur.cell_width_scale.den
    /\ draws'[cur.draw].cell_height
         = (C21_Normal.height * cur.cell_height_scale.num) \div cur.cell_height_scale.den

\* two spacings that add up to the difference d, the first taking the odd pixel
C21_Padding(first, second, d) ==
    /\ first + second = d
    /\ first - second = d % 2

\* what the two spacings are for a difference d: they add up to d when d is
\* not negative and to d + 1 when it is, the first taking the odd pixel
C21_Halves(first, second, d) ==
    IF d >= 0
    THEN C21_Padding(first, second, d)
    ELSE C21_Padding(first, second, d + 1)

\* C21 as stated: the spacings add up to what the cell has more than the
\* normal font, whatever the scales.
C21_AsClaimed ==
    [][pc = "set_spacing" =>
          LET draw == draws'[cur.draw]
          IN  /\ C21_Cell
              /\ C21_Padding(draw.char_spacing.right, draw.char_spacing.left,
                             draw.cell_width - C21_Normal.width)
              /\ C21_Padding(draw.char_spacing.top, draw.char_spacing.bottom,
                             draw.cell_height - C21_Normal.height)]_vars

\* C21: after _vte_draw_set_text_font the cell is the normal font's width and
\* height times the scales, cut to an integer; where the cell is no smaller
\* than the font the spacings add up to the difference, the right and the top
\* one taking the odd pixel; where it is smaller, the spacings add up to
\* one more than the difference.
C21_CellBox ==
    [][pc = "set_spacing" =>
          LET draw == draws'[cur.draw]
          IN  /\ C21_Cell
              /\ C21_Halves(draw.char_spacing.right, draw.char_spacing.left,
                            draw.cell_width - C21_Normal.width)
              /\ C21_Halves(draw.char_spacing.top, draw.char_spacing.bottom,
                            draw.cell_height - C21_Normal.height)]_vars

\* a font 20 by 40 was given cells 25 by 45
C21_Witness ==
    /\ pc = "idle"
    /\ draws[1].live
    /\ draws[1].fonts[VTE_DRAW_NORMAL] \in DOMAIN infos
    /\ infos[draws[1].fonts[VTE_DRAW_NORMAL]].width = 20
    /\ infos[draws[1].fonts[VTE_DRAW_NORMAL]].height = 40
    /\ draws[1].cell_width = 25 /\ draws[1].cell_height = 45
    /\ draws[1].char_spacing = [left |-> 2, right |-> 3, top |-> 3, bottom |-> 2]

\* the running _vte_draw_set_text_font creates a font for a widget whose
\* context has no cairo font map
C22_NoCairoFontMap == pc = "set_create" /\ cur.widget.font_map # "cairo"

\* C22 as stated: that acquisition fails, returning no font_info and
\* registering none.
C22_AsClaimed ==
    [][C22_NoCairoFontMap =>
          /\ ret' = NULL
          /\ font_info_for_context' = font_info_for_context
          /\ infos' = infos]_vars

\* C22: when the context handed to font_info_create_for_context has no cairo
\* font map, a context of the default cairo font map takes its place: the
\* font_info returned is registered, held by the caller, and keyed by the
\* resolution and font options of the default context, not the widget's,
\* with the description, language and timestamp asked for.
C22_DefaultFontMap ==
    [][C22_NoCairoFontMap =>
          /\ ret' \in font_info_for_context'
          /\ infos'[ret'].ref_count >= 1
          /\ draws'[cur.draw].fonts[cur.style] = ret'
          /\ infos'[ret'].context =
                 [resolution |-> 96,
                  desc |-> StyleDesc(cur.fontdesc, cur.style),
                  font_options |-> "default",
                  language |-> cur.widget.language,
                  fontconfig_timestamp |-> cur.widget.fontconfig_timestamp]]_vars

\* a terminal of the screen without a cairo font map was given the
\* font_info that the terminal of the other screen holds
C22_Witness ==
    /\ pc = "set_create"
    /\ cur.widget.font_map = "xft"
    /\ cur.style = VTE_DRAW_BOLD
    /\ ret \in font_info_for_context
    /\ infos[ret].ref_count = 2
    /\ infos[ret].context.resolution = 96
    /\ \E d \in Draws \ {cur.draw} : draws[d].live /\ draws[d].fonts[VTE_DRAW_NORMAL] = ret

\* font_info_destroy has been called for a font_info whose ref_count was 0
C23_DoubleRelease ==
    /\ out'.op = "font_info_destroy"
    /\ infos[out'.args.info].ref_count = 0

\* C23 as stated: the program goes no further after a release at ref_count 0.
C23_AsClaimed == [][C23_DoubleRelease => pc' = "aborted"]_vars

\* C23: a font_info_destroy on a font_info whose ref_count is already 0
\* returns at its g_return_if_fail: the font_info keeps ref_count 0 and its
\* one armed timeout, nothing is freed or unregistered, and the main loop
\* is idle for the next handler.
C23_ReleaseReturns ==
    [][C23_DoubleRelease =>
          /\ pc' = "idle"
          /\ infos' = infos
          /\ sources' = sources
          /\ font_info_for_context' = font_info_for_context
          /\ freed' = freed
          /\ infos[out'.args.info].destroy_timeout \in DOMAIN sources]_vars

\* a font_info of the regular description, which is released as often as it
\* is acquired, has been released once more
C23_Witness ==
    /\ pc = "idle"
    /\ out.op = "font_info_destroy"
    /\ out.args.info \in font_info_for_context
    /\ infos[out.args.info].context.desc.weight = "normal"
    /\ infos[out.args.info].ref_count = 0
    /\ infos[out.args.info].destroy_timeout \in DOMAIN sources

\* the running _vte_draw_set_text_font sets the fonts of a terminal that has
\* fonts, made for the same widget and description
C24_Rebuild ==
    /\ cur.draw # 0
    /\ pc \in {"set_create", "set_reject", "set_spacing"}
    /\ cur.fonts[VTE_DRAW_NORMAL] # NULL
    /\ Fingerprint(infos[cur.fonts[VTE_DRAW_NORMAL]].context)
         = Fingerprint(widget_context(cur.widget, cur.fontdesc))

\* the slots whose font_info was made for the style of the slot, not put
\* there for a rejected bold font
C24_OwnSlots ==
    { s \in Styles :
        Fingerprint(infos[cur.fonts[s]].context)
          = Fingerprint(widget_context(cur.widget, StyleDesc(cur.fontdesc, s))) }

\* a lookup of the rebuild allocates nothing
C24_NoneConstructed ==
    (C24_Rebuild /\ pc = "set_create") => next_info' = next_info

\* a lookup of the rebuild for a slot that held its own font_info returns
\* that font_info, allocating nothing and leaving no timeout armed for it
C24_HeldIsHit ==
    (C24_Rebuild /\ pc = "set_create" /\ cur.style \in C24_OwnSlots) =>
        /\ ret' = cur.fonts[cur.style]
        /\ next_info' = next_info
        /\ infos'[ret'].destroy_timeout = 0
        /\ \A src \in DOMAIN sources' : sources'[src] # ret'

\* a lookup of the rebuild for a slot of a rejected bold font returns the
\* registered font_info of the bold description, or a new one if there is none
C24_RejectedIsLookedUp ==
    (C24_Rebuild /\ pc = "set_create" /\ cur.style \notin C24_OwnSlots) =>
        IF Registered(CreateContext) # {}
        THEN ret' \in Registered(CreateContext) /\ next_info' = next_info
        ELSE ret' = next_info /\ next_info' = next_info + 1

\* when the rebuild ends, no font_info in a slot has a timeout armed
C24_NoTimerPending ==
    (C24_Rebuild /\ pc = "set_spacing") =>
        \A s \in Styles :
            /\ infos'[draws'[cur.draw].fonts[s]].destroy_timeout = 0
            /\ infos'[draws'[cur.draw].fonts[s]].ref_count >= 1
            /\ \A src \in DOMAIN sources' : sources'[src] # draws'[cur.draw].fonts[s]

\* C24 as stated: every lookup of the rebuild hits, so that nothing is
\* allocated, the slots end with the font_info they held and no timeout is
\* armed for them.
C24_AsClaimed ==
    [][/\ C24_NoneConstructed
       /\ C24_HeldIsHit
       /\ C24_NoTimerPending]_vars

\* C24: when _vte_draw_set_text_font sets the fonts of a terminal again for
\* the same widget and description, every slot that held the font_info of
\* its own style gets that font_info back by a lookup that hits, and ends
\* with it and without a timeout armed; a slot that held the normal font_info
\* in place of a rejected bold one has the bold font_info looked up again,
\* which hits if that is still registered and allocates one if its timeout
\* has fired since.
C24_RebuildReuses ==
    [][/\ C24_HeldIsHit
       /\ C24_RejectedIsLookedUp
       /\ (C24_Rebuild /\ pc = "set_spacing") =>
              \A s \in C24_OwnSlots : draws'[cur.draw].fonts[s] = cur.fonts[s]
       /\ C24_NoTimerPending]_vars

\* a rebuild has ended with the four slots as they were, each with a
\* font_info of its own that no other terminal holds
C24_Witness ==
    /\ pc = "set_spacing"
    /\ C24_Rebuild
    /\ C24_OwnSlots = Styles
    /\ draws[cur.draw].fonts = cur.fonts
    /\ next_info = 5
    /\ \A s \in Styles : infos[cur.fonts[s]].ref_count = 1 /\ infos[cur.fonts[s]].destroy_timeout = 0
    /\ sources = << >>

\* a font_info without a reference is in the end freed and unregistered, or
\* referenced again
C25_Evicted ==
    \A i \in 1 .. MaxInfos :
        (i \in DOMAIN infos /\ infos[i].ref_count = 0)
          ~> \/ i \notin DOMAIN infos /\ i \notin font_info_for_context
             \/ i \in DOMAIN infos /\ infos[i].ref_count > 0

\* an armed timeout is the one timeout of a font_info without a reference
C25_Armed ==
    \A s \in DOMAIN sources :
        /\ sources[s] \in DOMAIN infos
        /\ infos[sources[s]].ref_count = 0
        /\ infos[sources[s]].destroy_timeout = s

\* the timeout whose callback frees a font_info is no longer armed
C25_OneShot ==
    \A s \in DOMAIN sources :
        sources[s] \notin DOMAIN infos' => s \notin DOMAIN sources'

\* C25: a font_info whose ref_count has reached 0 is, unless a lookup of its
\* fingerprint references it again, in the end freed and removed from the
\* table by its timeout, given that the main loop dispatches armed timeouts;
\* the timeout is removed when it fires, so it fires once.
C25_EventuallyDestroyed == C25_Evicted /\ [](C25_Armed) /\ [][C25_OneShot]_vars

\* the timeout of a rejected bold font has fired: it is freed and
\* unregistered, and no timeout is left
C25_Witness ==
    /\ pc = "idle"
    /\ \E c \in freed : c.desc.weight = "bold"
    /\ 2 \notin DOMAIN infos
    /\ 2 \notin font_info_for_context
    /\ 1 \in DOMAIN infos
    /\ \A s \in DOMAIN sources : sources[s] # 2

\* the clusters of the one run of the sample text that are the character c
\* alone, in one byte and one glyph at the origin with an index of 16 bits
C26_SimpleClusters(layout, c) ==
    { k \in DOMAIN layout.runs[1].clusters :
        /\ layout.text[layout.runs[1].clusters[k].start_index + 1] = c
        /\ C9_Cacheable(layout, k) }

\* the characters that font_info_cache_ascii is to classify for a language
C26_Precached(layout, language) ==
    { c \in AsciiPoints :
        /\ C26_SimpleClusters(layout, c) # {}
        /\ IncludesLatin(language) \/ ~ScriptIsCommon(c) }

\* the characters a font_info has classified, and how
C26_Classified(info) ==
    /\ info.other_unistr_info = << >>
    /\ \A c \in AsciiPoints :
          info.ascii_unistr_info[c].coverage \in {COVERAGE_UNKNOWN, COVERAGE_USE_CAIRO_GLYPH}

\* a font_info of the heap has just been allocated
C26_Allocated == pc = "set_create" /\ ret' \notin DOMAIN infos

\* C26 as stated: with one run of one font and no unknown glyph, the
\* characters with a simple cluster are classified; otherwise none is.
C26_AsClaimed ==
    [][C26_Allocated =>
          LET info == infos'[ret']
              layout == info.layout
          IN  /\ C26_Classified(info)
              /\ { c \in AsciiPoints : Classified(info, c) }
                   = IF /\ layout.unknown_glyphs = 0
                        /\ Len(layout.runs) = 1
                        /\ layout.runs[1].font # NULL
                     THEN C26_Precached(layout, info.context.language)
                     ELSE {}]_vars

\* C26: when a font_info is allocated and its sample text has shaped to one
\* run of one font with a cairo scaled font and without unknown glyphs, the
\* characters classified, all as COVERAGE_USE_CAIRO_GLYPH, are those with a
\* cluster of one character, one byte and one glyph at the origin with an
\* index up to 0xFFFF, less the characters of a common or inherited script
\* if the language does not include the Latin script; when the sample text
\* has unknown glyphs, no run, several runs, or a run without font or
\* scaled font, none is classified.  The layout still holds the sample text:
\* no character was shaped on its own.
C26_AsciiPrecache ==
    [][C26_Allocated =>
          LET info == infos'[ret']
              layout == info.layout
          IN  /\ C26_Classified(info)
              /\ layout.text = ProbeText
              /\ { c \in AsciiPoints : Classified(info, c) }
                   = IF /\ layout.unknown_glyphs = 0
                        /\ Len(layout.runs) = 1
                        /\ layout.runs[1].font # NULL
                        /\ layout.runs[1].scaled_font # NULL
                     THEN C26_Precached(layout, info.context.language)
                     ELSE {}]_vars

\* a font_info for a language without the Latin script has classified "A"
\* and neither the space nor "(" of its sample text
C26_Witness ==
    /\ pc = "set_create"
    /\ ret \in DOMAIN infos
    /\ infos[ret].context.language = "ja"
    /\ infos[ret].layout = ProbeSimple
    /\ { c \in AsciiPoints : Classified(infos[ret], c) } = {65}

\* the calls among the calls made that paint a character
C27_Painting(calls) ==
    { k \in DOMAIN calls :
        calls[k].call \in {"show_glyphs", "show_glyph_string", "show_layout_line",
                           "draw_graphic"} }

\* whether the font of the handler that has just run has, after it, the
\* character c without unknown glyphs; FALSE for a terminal without fonts
C27_HasChar(c) ==
    /\ draws[out'.args.draw].fonts[VTE_DRAW_NORMAL] # NULL
    /\ ~font_info_find_unistr_info(infos'[OutFont], c).has_unknown_chars

\* _vte_draw_text paints a character whose entry has unknown glyphs as the
\* glyph string or the layout line of the entry
C27_TextStep ==
    TextDrawn =>
        \A i \in DOMAIN out'.args.requests :
            (/\ ~C17_LocalGraphic(DrawnChar(out'.args.requests[i]))
             /\ EntryOf(out'.args.requests[i]).has_unknown_chars) =>
                /\ EntryOf(out'.args.requests[i]).coverage
                      \in {COVERAGE_USE_PANGO_GLYPH_STRING, COVERAGE_USE_PANGO_LAYOUT_LINE}
                /\ \E k \in C27_Painting(out'.calls) :
                      ShowsEntry(out'.calls[k], EntryOf(out'.args.requests[i]))

\* _vte_draw_has_char returns whether the entry has no unknown glyphs
C27_HasCharStep ==
    (pc = "idle" /\ pc' = "idle" /\ out'.op = "has_char") =>
        out'.ret = <<C27_HasChar(out'.args.c)>>

\* a _vte_draw_char that returns has painted exactly if it returns TRUE, which
\* is what _vte_draw_has_char returns for the character of the request
C27_CharStep ==
    (pc = "idle" /\ pc' = "idle" /\ out'.op = "char") =>
        /\ out'.ret = <<C27_HasChar(out'.args.requests[1].c)>>
        /\ (C27_Painting(out'.calls) # {}) <=> out'.ret[1]

\* C27: _vte_draw_text paints a character whose entry has has_unknown_chars
\* set as the glyph string or layout line of the entry; _vte_draw_has_char
\* returns TRUE exactly when the entry of the character in the font of the
\* style has has_unknown_chars clear; and a _vte_draw_char that returns has
\* painted the request exactly when _vte_draw_has_char is TRUE for its
\* character, and returns that value.
C27_UnknownIsNoError == [][C27_TextStep /\ C27_HasCharStep /\ C27_CharStep]_vars

\* _vte_draw_char was asked for "(", which the bold font shapes with an
\* unknown glyph: it returned FALSE and painted nothing
C27_Witness ==
    /\ pc = "idle"
    /\ out.op = "char"
    /\ out.args.requests[1].c = 40
    /\ out.ret = <<FALSE>>
    /\ out.calls = << >>
    /\ draws[1].cr # NULL
    /\ draws[1].fonts[VTE_DRAW_BOLD] \in DOMAIN infos
    /\ LET uinfo == font_info_find_unistr_info(infos[draws[1].fonts[VTE_DRAW_BOLD]], 40)
       IN  uinfo.has_unknown_chars /\ uinfo.coverage = COVERAGE_USE_PANGO_LAYOUT_LINE

\* the armed timeout sources whose callback would free the font_info
C28_Timers(info) == { s \in DOMAIN sources : sources[s] = info }

\* C28: in every state, every font_info registered in font_info_for_context
\* has a ref_count that is not negative, has destroy_timeout # 0 exactly
\* when its ref_count is 0, and has at most one armed timeout source, which
\* is the one destroy_timeout names.
C28_TimerIffUnreferenced ==
    \A info \in font_info_for_context :
        /\ info \in DOMAIN infos
        /\ infos[info].ref_count >= 0
        /\ (infos[info].destroy_timeout # 0) <=> (infos[info].ref_count = 0)
        /\ Cardinality(C28_Timers(info)) <= 1
        /\ C28_Timers(info) = {infos[info].destroy_timeout} \ {0}

\* one registered font_info is held and has no timeout; another was released,
\* was released once more, and has ref_count 0 and its one timeout
C28_Witness ==
    /\ pc = "idle"
    /\ out.op = "font_info_destroy"
    /\ out.args.info \in font_info_for_context
    /\ infos[out.args.info].ref_count = 0
    /\ infos[out.args.info].destroy_timeout # 0
    /\ Cardinality(C28_Timers(out.args.info)) = 1
    /\ \E held \in font_info_for_context :
          infos[held].ref_count > 0 /\ infos[held].destroy_timeout = 0

\* the widths compared and what the comparison gave
C29_Compared == pc = "idle" /\ out.op = "reject_bold"

\* C29: for every pair of positive widths, the bold font is rejected exactly
\* when the widths differ by more than a tenth of the normal width,
\* |bold - normal| * 10 > normal.
C29_AsClaimed ==
    C29_Compared =>
        (out.ret[1] <=> abs(out.args.bold - out.args.normal) * 10 > out.args.normal)

\* what the division computes: the bold font is rejected exactly when it is
\* narrower than the normal font by more than a tenth of the normal width, or
\* wider by at least eleven hundredths of it; a bold font wider by more than
\* 10% and less than 11% is kept.
C29_RejectedByPercent ==
    C29_Compared =>
        LET bold == out.args.bold
            normal == out.args.normal
        IN  /\ out.ret[1] <=> (bold * 10 < normal * 9 \/ bold * 100 >= normal * 111)
            /\ (out.ret[1] # (abs(bold - normal) * 10 > normal)) =>
                   /\ ~out.ret[1]
                   /\ bold * 100 > normal * 110
                   /\ bold * 100 < normal * 111

\* a bold font 21 wide beside a normal font 19 wide, more than a tenth wider,
\* is kept: 2100 / 19 is 110
C29_Witness ==
    /\ C29_Compared
    /\ out.args = [bold |-> 21, normal |-> 19]
    /\ out.ret = <<FALSE>>
    /\ abs(out.args.bold - out.args.normal) * 10 > out.args.normal

\* two keys have been hashed and compared
C30_Compared == pc = "idle" /\ out.op = "context_equal"

\* keys that context_equal finds equal have one hash, and context_equal finds
\* two keys equal exactly when their five fields are
C30_HashOfEqual ==
    C30_Compared =>
        /\ out.ret[3] => out.ret[1] = out.ret[2]
        /\ out.ret[3] <=> Fingerprint(out.args.a) = Fingerprint(out.args.b)

\* two registered font_info structs with the same five fields, and so the
\* same hash, are one, and the same slot of two terminals set to the same five
\* fields holds one font_info
C30_OneEntry ==
    /\ \A i, j \in font_info_for_context :
          (/\ Fingerprint(infos[i].context) = Fingerprint(infos[j].context)
           /\ context_hash(infos[i].context) = context_hash(infos[j].context)) =>
              i = j
    /\ \A s \in Styles :
          (/\ draws[1].live /\ draws[2].live
           /\ draws[1].fonts[s] \in font_info_for_context
           /\ draws[2].fonts[s] \in font_info_for_context
           /\ Fingerprint(infos[draws[1].fonts[s]].context)
                 = Fingerprint(infos[draws[2].fonts[s]].context)) =>
              draws[1].fonts[s] = draws[2].fonts[s]

\* C30: two contexts that context_equal finds equal have the same
\* context_hash; context_equal holds exactly when resolution, font
\* description, font options, language and fontconfig timestamp are the same;
\* and two terminals whose contexts were made apart with the same five
\* fields hold one registered font_info.
C30_HashConsistent == C30_HashOfEqual /\ C30_OneEntry

\* the contexts of two widgets, each made by its own call, are equal and have
\* one hash
C30_Witness ==
    /\ C30_Compared
    /\ out.ret[3]
    /\ out.ret[1] = out.ret[2]
    /\ out.args.a.language = "ja"
    /\ out.args.a.resolution = 72
    /\ out.args.a.font_options = "gray"
    /\ out.args.a.fontconfig_timestamp = 2
    /\ Fingerprint(out.args.a) = Fingerprint(out.args.b)

\* an acquire returns a font_info of the five fields asked for, a new one
\* with one reference and no timeout when none of them is registered, and
\* changes no other font_info
C31_AcquireStep ==
    pc = "set_create" =>
        /\ ret' \in DOMAIN infos'
        /\ Fingerprint(infos'[ret'].context) = Fingerprint(CreateContext)
        /\ \A j \in DOMAIN infos :
              Fingerprint(infos[j].context) # Fingerprint(CreateContext) =>
                  /\ ret' # j
                  /\ j \in DOMAIN infos' /\ infos'[j] = infos[j]
                  /\ \A src \in DOMAIN sources :
                        sources[src] = j => src \in DOMAIN sources' /\ sources'[src] = j
        /\ Registered(CreateContext) = {} =>
              /\ ret' \notin DOMAIN infos
              /\ infos'[ret'].ref_count = 1
              /\ infos'[ret'].destroy_timeout = 0

\* the font_info the running handler releases in its next step, if any
C31_Released ==
    CASE pc \in {"free_fonts", "set_free_fonts"} -> {draws[cur.draw].fonts[cur.style]}
      [] pc = "set_reject" -> {draws[cur.draw].fonts[cur.style + VTE_DRAW_BOLD]}
      [] OTHER -> {}

\* a release changes the ref_count and the timeout of no other font_info
C31_ReleaseStep ==
    \A j \in (DOMAIN infos) \ C31_Released :
        pc \in {"free_fonts", "set_free_fonts", "set_reject"} =>
            /\ j \in DOMAIN infos'
            /\ infos'[j].ref_count = infos[j].ref_count
            /\ infos'[j].destroy_timeout = infos[j].destroy_timeout
            /\ \A src \in DOMAIN sources :
                  sources[src] = j => src \in DOMAIN sources' /\ sources'[src] = j
            /\ \A src \in DOMAIN sources' : sources'[src] = j => src \in DOMAIN sources

C32_Kinds ==
    {COVERAGE_USE_PANGO_LAYOUT_LINE, COVERAGE_USE_PANGO_GLYPH_STRING, COVERAGE_USE_CAIRO_GLYPH}

\* the characters the handler that has just run asked the entries of
C32_Asked ==
    CASE out'.op = "has_char" -> {out'.args.c}
      [] out'.op = "text" /\ pc' = "idle" ->
            { DrawnChar(out'.args.requests[i]) : i \in DOMAIN out'.args.requests }
      [] OTHER -> {}

\* after a handler that asked for the entry of a character, the entry has one
\* of the three kinds; and a handler stops at an assertion only for want of a
\* cairo context
C32_ClassifiedStep ==
    (/\ pc = "idle"
     /\ out'.op \in {"has_char", "text", "char"}
     /\ OutFont # NULL
     /\ draws[out'.args.draw].fonts[VTE_DRAW_NORMAL] # NULL) =>
        /\ \A c \in C32_Asked :
              ~C17_LocalGraphic(c) =>
                  font_info_find_unistr_info(infos'[OutFont], c).coverage \in C32_Kinds
        /\ pc' = "aborted" => draws[out'.args.draw].cr = NULL

\* every entry a font_info keeps for a character beyond ASCII has one of the
\* three kinds
C32_Stored ==
    \A i \in DOMAIN infos : \A c \in DOMAIN infos[i].other_unistr_info :
        infos[i].other_unistr_info[c].coverage \in C32_Kinds

\* C32: the entry of every character that a handler has had classified by
\* font_info_get_unistr_info has coverage layout line, glyph string or cairo
\* glyph, never COVERAGE_UNKNOWN, whatever the shaper answers; and
\* _vte_draw_text never stops at the g_assert_not_reached of its loop.
C32_NeverUnknown == [](C32_Stored) /\ [][C32_ClassifiedStep]_vars

\* U+03BB, shaped as one glyph of a font without a scaled font, was drawn as a
\* glyph string
C32_Witness ==
    /\ pc = "idle"
    /\ out.op = "text"
    /\ Len(out.shaper) = 1
    /\ Len(out.shaper[1].runs) = 1
    /\ out.shaper[1].runs[1].scaled_font = NULL
    /\ out.shaper[1].unknown_glyphs = 0
    /\ \E k \in DOMAIN out.calls : out.calls[k].call = "show_glyph_string"
    /\ font_info_find_unistr_info(infos[draws[1].fonts[out.args.style]], 955).coverage
          = COVERAGE_USE_PANGO_GLYPH_STRING

\* C33: every font_info measured has width >= 1 and height >= 1, whatever
\* extents the shaper reports for its characters, so that the ratio of the
\* bold width to the normal width is computed and never divides by zero.
C33_AtLeastOne ==
    /\ pc # "aborted"
    /\ out.op = "measure" =>
          /\ Len(out.ret) = 5
          /\ \A k \in 1 .. 4 : out.ret[k] >= 1
    /\ \A i \in DOMAIN infos : infos[i].width >= 1 /\ infos[i].height >= 1

\* both fonts were measured with all extents zero: each is 1 by 1, and the
\* bold font is kept
C33_Witness ==
    /\ pc = "idle"
    /\ out.op = "measure"
    /\ out.args = [normal |-> {Extent(0, 0)}, bold |-> {Extent(0, 0)}]
    /\ out.ret = <<1, 1, 1, 1, FALSE>>

\* the timeout sources armed for a font_info, before and after the step
C34_Sources(info) == { src \in DOMAIN sources : sources[src] = info }
C34_SourcesAfter(info) == { src \in DOMAIN sources' : sources'[src] = info }

\* C34: a font_info_destroy on a registered font_info whose ref_count is 0
\* leaves the ref_count 0, arms no second timeout, keeps the pending one,
\* and leaves font_info_for_context as it is.
C34_ReleaseAtZero ==
    [][(/\ pc = "idle"
        /\ out'.op = "font_info_destroy"
        /\ out'.args.info \in font_info_for_context
        /\ infos[out'.args.info].ref_count = 0) =>
          /\ out'.args.info \in DOMAIN infos'
          /\ infos'[out'.args.info].ref_count = 0
          /\ infos'[out'.args.info].destroy_timeout = infos[out'.args.info].destroy_timeout
          /\ C34_SourcesAfter(out'.args.info) = C34_Sources(out'.args.info)
          /\ C34_Sources(out'.args.info) = {infos[out'.args.info].destroy_timeout}
          /\ Cardinality(DOMAIN sources') = Cardinality(DOMAIN sources)
          /\ font_info_for_context' = font_info_for_context]_vars

\* the italic font_info, released by the terminal and then once more, has
\* ref_count 0 and one timeout, while another font_info is still held
C34_Witness ==
    /\ pc = "idle"
    /\ out.op = "font_info_destroy"
    /\ out.args.info \in font_info_for_context
    /\ infos[out.args.info].context.desc.style = "italic"
    /\ infos[out.args.info].ref_count = 0
    /\ Cardinality(C34_Sources(out.args.info)) = 1
    /\ Cardinality(DOMAIN sources) >= 2

\* whether request i of the _vte_draw_text that has just run is a local graphic
C35_Graphic(i) == C17_LocalGraphic(DrawnChar(out'.args.requests[i]))

\* whether request i is drawn as a cairo glyph
C35_Glyph(i) ==
    /\ ~C35_Graphic(i)
    /\ EntryOf(out'.args.requests[i]).coverage = COVERAGE_USE_CAIRO_GLYPH

\* whether the cairo_show_glyphs call k paints a glyph in the cell of request i
C35_Paints(k, i) ==
    LET r == out'.args.requests[i]
        width == draws[out'.args.draw].cell_width * r.columns
    IN  \E g \in DOMAIN out'.calls[k].glyphs :
            /\ out'.calls[k].glyphs[g].x >= r.x
            /\ out'.calls[k].glyphs[g].x < r.x + width

\* the place of the call that paints the graphic of request i
C35_GraphicCalls(i) ==
    { k \in DOMAIN out'.calls :
        /\ out'.calls[k].call = "draw_graphic"
        /\ out'.calls[k].x = out'.args.requests[i].x
        /\ out'.calls[k].c = DrawnChar(out'.args.requests[i]) }

\* C35: in a _vte_draw_text of fewer than MAX_RUN_LENGTH requests, every
\* local graphic is painted by a call of its own, and two cairo glyph
\* requests of one scaled font with nothing but local graphics between them
\* are painted by one cairo_show_glyphs call, which is made after the calls
\* that paint those graphics.
C35_GraphicKeepsBatch ==
    [][(TextDrawn /\ Len(out'.args.requests) < MAX_RUN_LENGTH) =>
          \A i \in DOMAIN out'.args.requests :
              C35_Graphic(i) =>
                  /\ C35_GraphicCalls(i) # {}
                  /\ \A a \in 1 .. (i - 1) : \A b \in (i + 1) .. Len(out'.args.requests) :
                        (/\ C35_Glyph(a) /\ C35_Glyph(b)
                         /\ EntryOf(out'.args.requests[a]).ufi.scaled_font
                               = EntryOf(out'.args.requests[b]).ufi.scaled_font
                         /\ \A m \in (a + 1) .. (b - 1) : C35_Graphic(m)) =>
                            \E k \in GlyphCalls(out'.calls) :
                                /\ C35_Paints(k, a)
                                /\ C35_Paints(k, b)
                                /\ \A g \in C35_GraphicCalls(i) : g < k]_vars

\* a row of eight with U+2500 fourth was drawn: the graphic first, and then
\* the seven glyphs around it in one cairo_show_glyphs
C35_Witness ==
    /\ pc = "idle"
    /\ out.op = "text"
    /\ Len(out.args.requests) = 8
    /\ out.args.requests[4].c = 9472
    /\ \E g, k \in DOMAIN out.calls :
          /\ g < k
          /\ out.calls[g].call = "draw_graphic"
          /\ out.calls[k].call = "show_glyphs"
          /\ Len(out.calls[k].glyphs) = 7
          /\ out.calls[k].glyphs[3].x < out.calls[g].x
          /\ out.calls[k].glyphs[4].x > out.calls[g].x

\* the handlers that paint on the cairo context
C36_PaintOps == {"clear", "text", "draw_rectangle", "fill_rectangle", "undercurl"}

\* a _vte_draw_set_cairo stops at its assertion exactly when it sets a context
\* while one is set or unsets one while none is set, and otherwise leaves the
\* context it was given
C36_SetStep ==
    (pc = "idle" /\ out'.op = "set_cairo") =>
        LET d == out'.args.draw
            misuse == IF out'.args.cr # NULL THEN draws[d].cr # NULL ELSE draws[d].cr = NULL
        IN  /\ (pc' = "aborted") <=> misuse
            /\ ~misuse => pc' = "idle" /\ draws'[d].cr = out'.args.cr

\* a handler that paints stops at its assertion exactly when no context is set
C36_PaintStep ==
    /\ (pc = "idle" /\ out'.op \in C36_PaintOps) =>
          /\ (pc' = "aborted") <=> (draws[out'.args.draw].cr = NULL)
          /\ pc' # "aborted" => pc' = "idle" /\ draws'[out'.args.draw].cr = draws[out'.args.draw].cr
    /\ (pc = "idle" /\ pc' = "aborted") =>
          \/ out'.op = "set_cairo"
          \/ draws[out'.args.draw].cr = NULL

\* C36: _vte_draw_set_cairo with a context is valid only while none is set
\* and with NULL only while one is set, and stops at its assertion otherwise;
\* _vte_draw_clear, _vte_draw_text, _vte_draw_draw_rectangle,
\* _vte_draw_fill_rectangle and _vte_draw_draw_undercurl stop at their
\* assertion exactly when no context is set; so that no assertion fails while
\* setting and unsetting alternate and painting is done in between.
C36_CanvasProtocol == [][C36_SetStep /\ C36_PaintStep]_vars

\* a context was set, text, a rectangle and an undercurl were painted, and
\* the context has just been unset
C36_Witness ==
    /\ pc = "idle"
    /\ out.op = "set_cairo"
    /\ out.args.cr = NULL
    /\ draws[1].live
    /\ draws[1].cr = NULL
    /\ draws[1].undercurl_surface # NULL
    /\ draws[1].fonts[VTE_DRAW_NORMAL] \in DOMAIN infos
    /\ font_info_find_unistr_info(infos[draws[1].fonts[VTE_DRAW_NORMAL]], 65).coverage
          = COVERAGE_USE_CAIRO_GLYPH

\* a terminal with an undercurl surface has one that was drawn for the cell
\* width it has
C37_Fresh ==
    \A d \in Draws :
        (draws[d].live /\ draws[d].undercurl_surface # NULL) =>
            draws[d].undercurl_look.cell_width = draws[d].cell_width

\* _vte_draw_set_text_font leaves the terminal without surface, and
\* _vte_draw_free leaves no terminal
C37_DropStep ==
    /\ pc = "set_spacing" => draws'[cur.draw].undercurl_surface = NULL
    /\ pc = "free_draw" => ~draws'[cur.draw].live

\* a _vte_draw_draw_undercurl makes the surface only when there is none, for
\* the cell width of the terminal, keeps the one there is as it is, and masks
\* with the surface the terminal then has
C37_UndercurlStep ==
    (pc = "idle" /\ pc' = "idle" /\ out'.op = "undercurl") =>
        LET before == draws[out'.args.draw]
            after == draws'[out'.args.draw]
        IN  /\ after.undercurl_surface # NULL
            /\ IF before.undercurl_surface = NULL
               THEN /\ after.undercurl_look.cell_width = before.cell_width
                    /\ after.undercurl_look.line_width = out'.args.line_width
               ELSE after.undercurl_look = before.undercurl_look
            /\ Cardinality({ k \in DOMAIN out'.calls : out'.calls[k].call = "mask_surface" })
                  = out'.args.count
            /\ \A k \in DOMAIN out'.calls :
                  out'.calls[k].call = "mask_surface" =>
                      /\ out'.calls[k].surface = after.undercurl_look
                      /\ out'.calls[k].surface.cell_width = before.cell_width

\* no other handler makes a surface or changes the one there is
C37_OtherStep ==
    \A d \in Draws :
        (/\ draws[d].live /\ draws'[d].live
         /\ draws'[d].undercurl_surface # NULL
         /\ \/ draws[d].undercurl_surface = NULL
            \/ draws'[d].undercurl_look # draws[d].undercurl_look) =>
            out'.op = "undercurl" /\ out'.args.draw = d /\ draws[d].undercurl_surface = NULL

\* C37: every _vte_draw_set_text_font leaves the terminal without undercurl
\* surface and _vte_draw_free frees it with the terminal; only a
\* _vte_draw_draw_undercurl that finds none makes one, for the cell width of
\* the terminal; later ones mask with it unchanged; so that every undercurl
\* is painted from a surface made for the cell width the terminal has.
C37_UndercurlIsFresh ==
    [](C37_Fresh) /\ [][C37_DropStep /\ C37_UndercurlStep /\ C37_OtherStep]_vars

\* with cells 25 wide, an undercurl of line width 2 was painted from the
\* surface an earlier undercurl of line width 1 had made for cells 25 wide
C37_Witness ==
    /\ pc = "idle"
    /\ out.op = "undercurl"
    /\ out.args.line_width = 2
    /\ draws[1].cell_width = 25
    /\ draws[1].undercurl_surface # NULL
    /\ draws[1].undercurl_look.line_width = 1
    /\ draws[1].undercurl_look.cell_width = 25
    /\ \E k \in DOMAIN out.calls :
          out.calls[k].call = "mask_surface" /\ out.calls[k].surface = draws[1].undercurl_look

\* (row, column) order written out: before, and not after
C39_Before(a, b) == a.row < b.row \/ (a.row = b.row /\ a.column < b.column)
C39_NotAfter(a, b) == a = b \/ C39_Before(a, b)

\* empty() answers whether the start is not before the end
C39_EmptyStep ==
    out'.op = "empty" => out'.ret[1] = ~C39_Before(cur.m_start, cur.m_end)

\* contains(p) answers whether p is not before the start and before the end,
\* and never yes for a span that is empty
C39_ContainsStep ==
    out'.op = "contains" =>
        /\ out'.ret[1] = (C39_NotAfter(cur.m_start, out'.args[1])
                            /\ C39_Before(out'.args[1], cur.m_end))
        /\ ~C39_Before(cur.m_start, cur.m_end) => out'.ret[1] = FALSE

\* clear() leaves (-1, -1) at both ends, a span whose start is not before
\* its end
C39_ClearStep ==
    out'.op = "clear" =>
        /\ cur'.m_start = [row |-> 0 - 1, column |-> 0 - 1]
        /\ cur'.m_end = cur'.m_start
        /\ ~C39_Before(cur'.m_start, cur'.m_end)

\* C39: for a span, empty() holds exactly when the start is at or after the
\* end in (row, column) order, contains(p) holds exactly when p is at or
\* after the start and before the end, an empty span contains no coordinate,
\* and clear() leaves an empty span.
C39_SpanOrder ==
    [][pc = "span" => (C39_EmptyStep /\ C39_ContainsStep /\ C39_ClearStep)]_vars

\* the span from (0, 0) to (1, -1) was asked for (0, 1), which is after its
\* start and before its end by the row alone, and contains it
C39_Witness ==
    /\ pc = "span"
    /\ out.op = "contains"
    /\ cur = [m_start |-> [row |-> 0, column |-> 0], m_end |-> [row |-> 1, column |-> 0 - 1]]
    /\ out.args[1] = [row |-> 0, column |-> 1]
    /\ out.ret[1] = TRUE

\* the descriptors the constructed objects hold
C38_Held(objs) ==
    { objs[o].m_fd : o \in { x \in FdObjects : objs[x].live } } \ {NoFd}

\* every descriptor held is open and held by one object
C38_Clean(st) ==
    /\ C38_Held(st.objs) \subseteq st.open
    /\ \A o1 \in FdObjects, o2 \in FdObjects :
          (/\ o1 # o2 /\ st.objs[o1].live /\ st.objs[o2].live
           /\ st.objs[o1].m_fd = st.objs[o2].m_fd) => st.objs[o1].m_fd = NoFd

\* the descriptors the step closed, in order
C38_Closed == [k \in DOMAIN out'.calls |-> out'.calls[k].fd]
C38_ClosesOf(fd) == IF fd = NoFd THEN << >> ELSE <<fd>>

\* steal() returns the descriptor, leaves -1 and closes nothing
C38_StealStep ==
    out'.op = "steal" =>
        /\ cur'.objs[out'.args[1]] = [live |-> TRUE, m_fd |-> NoFd]
        /\ out'.ret = <<cur.objs[out'.args[1]].m_fd>>
        /\ C38_Closed = << >>
        /\ cur'.open = cur.open

\* the destructor closes the descriptor held, and nothing when -1 is held
C38_DestroyStep ==
    out'.op = "destroy" =>
        /\ C38_Closed = C38_ClosesOf(cur.objs[out'.args[1]].m_fd)
        /\ ~cur'.objs[out'.args[1]].live

\* assignment from another object closes what the target held, moves what
\* the source held and leaves -1 in the source; from itself it does nothing
C38_AssignStep ==
    out'.op = "assign" =>
        LET o == out'.args[1]
            rhs == out'.args[2]
        IN  IF o = rhs
            THEN cur' = cur /\ C38_Closed = << >>
            ELSE /\ C38_Closed = C38_ClosesOf(cur.objs[o].m_fd)
                 /\ cur'.objs[o] = [live |-> TRUE, m_fd |-> cur.objs[rhs].m_fd]
                 /\ cur'.objs[rhs] = [live |-> TRUE, m_fd |-> NoFd]
                 /\ \A x \in FdObjects \ {o, rhs} : cur'.objs[x] = cur.objs[x]

\* the step hands an int to an object
C38_HandsOver == out'.op \in {"smart_fd_of", "assign_int", "int_ptr"}

\* every descriptor held is open and held once, and the int handed over, if
\* any, is -1 or a descriptor no object holds
C38_WellUsed ==
    /\ C38_Clean(cur)
    /\ C38_HandsOver => out'.args[2] \notin C38_Held(cur.objs)

\* the step closes at most one descriptor, one that an object held and that
\* was open, no object holds it afterwards, and a descriptor leaves the
\* objects only closed or stolen
C38_OnceStep ==
    /\ Len(out'.calls) <= 1
    /\ \A k \in DOMAIN out'.calls :
          /\ out'.calls[k].ret = 0
          /\ out'.calls[k].fd \in C38_Held(cur.objs)
          /\ out'.calls[k].fd \notin C38_Held(cur'.objs)
          /\ out'.calls[k].fd \notin cur'.open
    /\ \A fd \in C38_Held(cur.objs) \ C38_Held(cur'.objs) :
          \/ \E k \in DOMAIN out'.calls : out'.calls[k].fd = fd
          \/ out'.op = "steal" /\ out'.ret = <<fd>>
    /\ C38_Clean(cur')

\* the claim as worded: no close ever fails, whatever int is handed over
C38_AsClaimed ==
    [][pc = "fd" =>
          /\ C38_StealStep /\ C38_DestroyStep /\ C38_AssignStep
          /\ \A k \in DOMAIN out'.calls : out'.calls[k].ret = 0]_vars

\* C38: a smart_fd holds one int; steal() leaves -1, so that the destructor
\* closes nothing; assignment from another smart_fd closes the descriptor of
\* the target, moves that of the source and leaves -1 in the source;
\* self-assignment changes nothing; and while no int handed to a constructor,
\* to operator = (int) or through operator int* is a descriptor that a
\* smart_fd holds, every descriptor held is closed once, when its object is
\* destroyed or assigned to, unless it was stolen.
C38_ClosedOnce ==
    [][pc = "fd" =>
          /\ C38_StealStep /\ C38_DestroyStep /\ C38_AssignStep
          /\ C38_WellUsed => C38_OnceStep]_vars

\* object 1 held 3 and was assigned object 2 holding 4: 3 was closed, object
\* 1 holds 4, which is open, and object 2 holds -1
C38_Witness ==
    /\ pc = "fd"
    /\ out.op = "assign"
    /\ out.args = <<1, 2>>
    /\ out.calls = <<[call |-> "close", fd |-> 3, ret |-> 0]>>
    /\ cur.objs[1] = [live |-> TRUE, m_fd |-> 4]
    /\ cur.objs[2] = [live |-> TRUE, m_fd |-> NoFd]
    /\ cur.open = {4}

====
